---- MODULE Spec2Model ----
(***************************************************************************)
(* A model of caiman/motion_correction.py: the translation-registration   *)
(* primitive (register_translation, register_translation_3d), the patch    *)
(* grid (sliding_window, create_weight_matrix_for_blending) and the        *)
(* correction engine (tile_and_correct, tile_and_correct_3d).              *)
(*                                                                         *)
(* Arrays are functions from index tuples (0-based, one entry per axis) to *)
(* integers.  A call is one step: Init draws the arguments, the action     *)
(* runs the whole function and stores what it returns (or the error it     *)
(* raises) in ret.                                                         *)
(***************************************************************************)
EXTENDS Integers, Sequences, FiniteSets, TLC

VARIABLES pc, call, ret

vars == <<pc, call, ret>>

(***************************************************************************)
(* Bounds of the model.                                                    *)
(***************************************************************************)
\* longest axis of a 2-D image handed to the registration primitive
MaxAxis == 4
\* longest axis of a 3-D image handed to the registration primitive
MaxAxis3 == 2
\* largest max_shifts entry
MaxShift == 2
\* largest magnitude of a shifts_lb / shifts_ub entry
MaxBound == 2
\* largest upsample_factor
MaxUpsample == 2

(***************************************************************************)
(* Arithmetic and indexing helpers.                                        *)
(***************************************************************************)
Min(a, b) == IF a < b THEN a ELSE b

Max(a, b) == IF a > b THEN a ELSE b

Abs(a) == IF a < 0 THEN -a ELSE a

\* np.ceil(a / b) for b > 0
CeilDiv(a, b) == -((-a) \div b)

\* np.fix(a / b) for a >= 0, b > 0
FixDiv(a, b) == a \div b

\* an np.ndarray: the entries are stored when the array is built, not
\* recomputed at every read
Array(f) == f @@ << >>

RECURSIVE Prod(_, _)
\* product of shape[a..Len(shape)]
Prod(shape, a) == IF a > Len(shape) THEN 1 ELSE shape[a] * Prod(shape, a + 1)

RECURSIVE MaxDim(_, _)
\* the longest axis among shape[a..Len(shape)]
MaxDim(shape, a) ==
    IF a > Len(shape) THEN 0 ELSE Max(shape[a], MaxDim(shape, a + 1))

\* the index tuples of an array of the given shape
Indices(shape) ==
    {idx \in [1..Len(shape) -> 0..(MaxDim(shape, 1) - 1)] :
        \A a \in 1..Len(shape) : idx[a] < shape[a]}

RECURSIVE FlatFrom(_, _, _)
FlatFrom(idx, shape, a) ==
    IF a > Len(shape) THEN 0
    ELSE idx[a] * Prod(shape, a + 1) + FlatFrom(idx, shape, a + 1)

\* position of idx in C (row-major) order, as np.argmax / np.unravel_index count
Flat(idx, shape) == FlatFrom(idx, shape, 1)

(***************************************************************************)
(* Python slice semantics on an axis of length N.                          *)
(***************************************************************************)
\* a slice endpoint: negative counts from the end, then clamped to 0..N
NormIdx(i, N) == IF i < 0 THEN Max(i + N, 0) ELSE Min(i, N)

\* a[lo:hi]
SliceBetween(lo, hi, N) == {k \in 0..(N - 1) : NormIdx(lo, N) <= k /\ k < NormIdx(hi, N)}

\* a[:hi]
SliceTo(hi, N) == {k \in 0..(N - 1) : k < NormIdx(hi, N)}

\* a[lo:]
SliceFrom(lo, N) == {k \in 0..(N - 1) : NormIdx(lo, N) <= k}

(***************************************************************************)
(* The registration primitive: register_translation and                    *)
(* register_translation_3d.                                                *)
(***************************************************************************)
\* the index (n + k) taken circularly on every axis
AddMod(n, k, shape) == [a \in 1..Len(shape) |-> (n[a] + k[a]) % shape[a]]

\* the sum of the first n entries of a list
RECURSIVE SumOver(_, _)
SumOver(f, n) == IF n = 0 THEN 0 ELSE f[n] + SumOver(f, n - 1)

\* the index tuple at position i of C order
Unflat(i, shape) == [a \in 1..Len(shape) |-> (i \div Prod(shape, a + 1)) % shape[a]]

\* np.fft.ifftn(src_freq * target_freq.conj()): the circular cross-correlation
\* cc[k] = sum over n of src[n + k] * target[n]
CrossCorrelationSwapped(src, tgt, shape) ==
    LET size       == Prod(shape, 1)
        nonzero(n) == src[n] # 0
        support    == SelectSeq([i \in 1..size |-> Unflat(i - 1, shape)], nonzero)
    IN  [k \in Indices(shape) |->
            SumOver([i \in 1..Len(support) |->
                        tgt[AddMod(support[i], k, shape)] * src[support[i]]],
                    Len(support))]

CrossCorrelation(src, tgt, shape) ==
    LET size       == Prod(shape, 1)
        nonzero(n) == tgt[n] # 0
        support    == SelectSeq([i \in 1..size |-> Unflat(i - 1, shape)], nonzero)
    IN  [k \in Indices(shape) |->
            SumOver([i \in 1..Len(support) |->
                        src[AddMod(support[i], k, shape)] * tgt[support[i]]],
                    Len(support))]

\* the bins of one axis zeroed when shifts_lb / shifts_ub are given
MaskedBounded(N, lb, ub) ==
    IF lb < 0 /\ ub >= 0
    THEN SliceBetween(ub, lb, N)
    ELSE SliceTo(lb, N) \cup SliceFrom(ub, N)

\* the bins of one axis zeroed by the default max_shifts window
MaskedDefault(N, m) == SliceBetween(m, -m, N)

\* new_cross_corr = np.abs(cross_correlation) with the masked bins set to 0
NewCrossCorr(cc, shape, masked) ==
    [k \in Indices(shape) |->
        IF \E a \in 1..Len(shape) : k[a] \in masked[a] THEN 0 ELSE Abs(cc[k])]

\* np.unravel_index(np.argmax(x), shape): the first maximum in C order
ArgMax(x, shape) ==
    LET top  == CHOOSE v \in {x[q] : q \in Indices(shape)} :
                    \A q \in Indices(shape) : x[q] <= v
        tops == {q \in Indices(shape) : x[q] = top}
    IN  CHOOSE p \in tops : \A q \in tops : Flat(p, shape) <= Flat(q, shape)

\* shifts[shifts > midpoints] -= shape[shifts > midpoints], midpoints = N // 2
WrapShiftGe(p, N) == IF p >= N \div 2 THEN p - N ELSE p

WrapShift(p, N) == IF p > N \div 2 THEN p - N ELSE p

\* upsampled_region_size = np.ceil(upsample_factor * 1.5)
UpsampledRegionSize(uf) == CeilDiv(3 * uf, 2)

\* dftshift = np.fix(upsampled_region_size / 2.)
DftShift(uf) == FixDiv(UpsampledRegionSize(uf), 2)

\* the sub-pixel refinement, in units of 1/upsample_factor: the rounded
\* estimate plus the offset of the maximum of the upsampled neighbourhood.
\* The position of that maximum (maxima) is the result of a real-valued
\* DFT; it is an input here, any bin of the neighbourhood.
Refine(pixel, uf, maxima) ==
    [a \in 1..Len(pixel) |-> pixel[a] * uf + (maxima[a] - DftShift(uf))]

\* for dim in range(ndim): if shape[dim] == 1: shifts[dim] = 0
DegenerateAxisKeep(shifts, shape) == shifts

DegenerateAxis(shifts, shape) ==
    [a \in 1..Len(shape) |-> IF shape[a] = 1 THEN 0 ELSE shifts[a]]

Raised(err) ==
    [status |-> err, shifts |-> << >>, den |-> 1, pixel |-> << >>, masked |-> << >>,
     peak |-> << >>]

\* the masking, peak search and refinement shared by both functions;
\* maskAxes is the number of leading axes the masking statements index
RegisterCore(c, maskAxes, maxima) ==
    LET shape  == c.shape
        n      == Len(shape)
        cc     == CrossCorrelation(c.src, c.tgt, shape)
        masked == [a \in 1..n |->
                     IF a > maskAxes THEN {}
                     ELSE IF c.hasLb \/ c.hasUb
                          THEN MaskedBounded(shape[a], c.lb[a], c.ub[a])
                          ELSE MaskedDefault(shape[a], c.ms[a])]
        ncc    == Array(NewCrossCorr(cc, shape, masked))
        p      == ArgMax(ncc, shape)
        pixel  == [a \in 1..n |-> WrapShift(p[a], shape[a])]
        fine   == IF c.uf = 1 THEN pixel ELSE Refine(pixel, c.uf, maxima)
    IN  [status |-> "ok", shifts |-> DegenerateAxis(fine, shape), den |-> c.uf,
         pixel |-> pixel, masked |-> masked, peak |-> p]

\* register_translation(src_image, target_image, upsample_factor, space="real",
\*                      shifts_lb, shifts_ub, max_shifts)
register_translation(c, maxima) ==
    IF c.shape # c.tshape THEN Raised("ValueError")
    ELSE IF Len(c.shape) # 2 /\ c.uf > 1 THEN Raised("NotImplementedError")
    \* subscripting a bound that is None
    ELSE IF (c.hasLb \/ c.hasUb) /\ ~(c.hasLb /\ c.hasUb) THEN Raised("TypeError")
    ELSE RegisterCore(c, 2, maxima)

\* register_translation_3d(src_image, target_image, upsample_factor,
\*                         space="real", shifts_lb, shifts_ub, max_shifts)
register_translation_3d(c, maxima) ==
    IF c.shape # c.tshape THEN Raised("ValueError")
    ELSE IF Len(c.shape) # 3 /\ c.uf > 1 THEN Raised("NotImplementedError")
    \* subscripting a bound that is None: shifts_lb[0] in the condition, or
    \* shifts_ub[0] once the condition gets to it
    ELSE IF (c.hasLb \/ c.hasUb) /\ ~c.hasLb THEN Raised("TypeError")
    ELSE IF c.hasLb /\ ~c.hasUb /\ c.lb[1] < 0 THEN Raised("TypeError")
    \* new_cross_corr[.., :, :] on an array of fewer than three axes
    ELSE IF Len(c.shape) < 3 THEN Raised("IndexError")
    ELSE IF c.hasLb /\ ~c.hasUb THEN Raised("TypeError")
    ELSE RegisterCore(c, 3, maxima)

(***************************************************************************)
(* Calls of the registration primitive.                                    *)
(***************************************************************************)
Origin(shape) == [a \in 1..Len(shape) |-> 0]

Const(shape, v) == [a \in 1..Len(shape) |-> v]

\* an image that is 1 at the origin, v at q and 0 elsewhere
TwoPixels(shape, q, v) ==
    [n \in Indices(shape) |-> IF n = Origin(shape) THEN 1 ELSE IF n = q THEN v ELSE 0]

\* np.roll(img, d, axis=all): out[n] = img[n - d], circularly
Roll(img, d, shape) ==
    [n \in Indices(shape) |-> img[[a \in 1..Len(shape) |-> (n[a] - d[a]) % shape[a]]]]

Shapes2 == [1..2 -> 1..MaxAxis]

Shapes3 == [1..3 -> 1..MaxAxis3]

FnFor(shape) ==
    IF Len(shape) = 2 THEN "register_translation" ELSE "register_translation_3d"

\* a call on src and the copy of src rolled by d
RegCall(fn, shape, src, d, uf, hasLb, hasUb, lb, ub, ms) ==
    [fn |-> fn, shape |-> shape, tshape |-> shape, src |-> src,
     tgt |-> Roll(src, d, shape), d |-> d, uf |-> uf,
     hasLb |-> hasLb, hasUb |-> hasUb, lb |-> lb, ub |-> ub, ms |-> ms]

\* the tuple that is v on axis a and w on the others
OnAxis(n, a, v, w) == [b \in 1..n |-> IF b = a THEN v ELSE w]

\* the displacements along one axis
AxisAligned(shape) ==
    {d \in Indices(shape) :
        \E a \in 1..Len(shape) : \A b \in (1..Len(shape)) \ {a} : d[b] = 0}

\* src is a single bright pixel at the origin and target the same pixel
\* moved to d, so the cross-correlation peaks at bin (-d mod N) on each axis.
\* Default window (the widest one on all axes but one), whole-pixel
\* registration.
InitRegDefault ==
    \E shape \in Shapes2 \cup Shapes3 :
        \E d \in Indices(shape), a \in 1..Len(shape), m \in 0..MaxShift :
            call = RegCall(FnFor(shape), shape, TwoPixels(shape, Origin(shape), 1), d,
                           1, FALSE, FALSE, Origin(shape), Origin(shape),
                           OnAxis(Len(shape), a, m, MaxShift))

\* sub-pixel registration with the widest default window
InitRegUpsampled ==
    \E shape \in Shapes2 \cup Shapes3 :
        \E d \in AxisAligned(shape), uf \in 2..MaxUpsample :
            call = RegCall(FnFor(shape), shape, TwoPixels(shape, Origin(shape), 1), d,
                           uf, FALSE, FALSE, Origin(shape), Origin(shape),
                           Const(shape, MaxShift))

\* both bounds given, well-formed or not: any pair on one axis, (-1, 1) on
\* the others
InitRegBounded ==
    \E shape \in Shapes2 \cup Shapes3 :
        \E d \in AxisAligned(shape), a \in 1..Len(shape),
           l \in -MaxBound..MaxBound, u \in -MaxBound..MaxBound :
            call = RegCall(FnFor(shape), shape, TwoPixels(shape, Origin(shape), 1), d,
                           1, TRUE, TRUE, OnAxis(Len(shape), a, l, -1),
                           OnAxis(Len(shape), a, u, 1), Const(shape, MaxShift))

\* only one of the two bounds given
InitRegOneBound ==
    \E shape \in Shapes2 \cup Shapes3 :
        \E h \in BOOLEAN, v \in -1..1 :
            call = RegCall(FnFor(shape), shape, TwoPixels(shape, Origin(shape), 1),
                           Origin(shape), 1, h, ~h, Const(shape, v), Const(shape, v),
                           Const(shape, MaxShift))

\* target one pixel longer than src on one axis
InitRegShapeMismatch ==
    \E shape \in Shapes2 \cup Shapes3 :
        \E a \in 1..Len(shape), uf \in 1..MaxUpsample :
            LET tshape == [shape EXCEPT ![a] = shape[a] + 1]
            IN  call = [RegCall(FnFor(shape), shape, TwoPixels(shape, Origin(shape), 1),
                                Origin(shape), uf, FALSE, FALSE, Origin(shape),
                                Origin(shape), Const(shape, MaxShift))
                        EXCEPT !.tshape = tshape,
                               !.tgt = TwoPixels(tshape, Origin(shape), 1)]

\* an array of the rank the function was not written for
InitRegRank ==
    \E shape \in Shapes2 \cup Shapes3 :
        \E uf \in 1..MaxUpsample, h \in BOOLEAN :
            call = RegCall(IF Len(shape) = 2 THEN "register_translation_3d"
                                             ELSE "register_translation",
                           shape, TwoPixels(shape, Origin(shape), 1), Origin(shape),
                           uf, h, h, Const(shape, -1), Const(shape, 1),
                           Const(shape, MaxShift))

NoRet == [status |-> "none"]

\* the bins of the upsampled neighbourhood, one per axis
Region(c) ==
    IF c.uf = 1 THEN {Origin(c.shape)}
    ELSE [1..Len(c.shape) -> 0..(UpsampledRegionSize(c.uf) - 1)]

InitReg ==
    /\ pc = "call"
    /\ ret = NoRet
    /\ \/ InitRegDefault
       \/ InitRegUpsampled
       \/ InitRegBounded
       \/ InitRegOneBound
       \/ InitRegShapeMismatch
       \/ InitRegRank

RegisterTranslation ==
    /\ pc = "call"
    /\ call.fn = "register_translation"
    /\ \E maxima \in Region(call) : ret' = register_translation(call, maxima)
    /\ pc' = "done"
    /\ UNCHANGED call

RegisterTranslation3d ==
    /\ pc = "call"
    /\ call.fn = "register_translation_3d"
    /\ \E maxima \in Region(call) : ret' = register_translation_3d(call, maxima)
    /\ pc' = "done"
    /\ UNCHANGED call

NextReg == RegisterTranslation \/ RegisterTranslation3d

SpecReg == InitReg /\ [][NextReg]_vars

(***************************************************************************)
(* Round trips: an image registered against a circularly shifted copy.     *)
(***************************************************************************)
\* longest axis of a round-trip image
MaxAxisRT == 4

ShapesRT == [1..2 -> 1..MaxAxisRT]

\* src has a unit pixel at the origin and one more pixel of value -1, 0 or 1
InitRoundTrip ==
    /\ pc = "call"
    /\ ret = NoRet
    /\ \E shape \in ShapesRT :
        \E q \in Indices(shape), v \in {-1, 1},
           d \in [1..2 -> -(MaxShift - 1)..(MaxShift - 1)],
           ms \in [1..2 -> (MaxShift - 1)..MaxShift] :
            call = RegCall("register_translation", shape, TwoPixels(shape, q, v), d,
                           1, FALSE, FALSE, Origin(shape), Origin(shape), ms)

SpecRoundTrip == InitRoundTrip /\ [][RegisterTranslation]_vars

(***************************************************************************)
(* The patch grid: sliding_window, sliding_window_3d and                   *)
(* create_weight_matrix_for_blending.                                      *)
(***************************************************************************)
\* longest axis of a 2-D frame cut into patches
MaxExtent == 7
\* largest stride and overlap of a 2-D patch grid
MaxStride == 3
MaxOverlap == 3
\* the same for a 3-D frame
MaxExtent3 == 3
MaxStride3 == 2
MaxOverlap3 == 1

\* list(range(0, stop, step)) for step >= 1
PyRange(stop, step) ==
    IF stop <= 0 THEN << >>
    ELSE [i \in 1..CeilDiv(stop, step) |-> (i - 1) * step]

\* range_k = list(range(0, N - windowSize, stride)) + [N - windowSize]
AxisRangeOpen(N, ov, st) == PyRange(N - (ov + st), st)

AxisRange(N, ov, st) == Append(PyRange(N - (ov + st), st), N - (ov + st))

\* the tile with grid coordinates g (0-based) of the ranges rng: its origin
\* and, per axis, the indices of image[x:x + windowSize]
Tile(g, rng, shape, ov, st) ==
    [grid  |-> g,
     org   |-> [a \in 1..Len(g) |-> rng[a][g[a] + 1]],
     cells |-> [a \in 1..Len(g) |->
                  SliceBetween(rng[a][g[a] + 1], rng[a][g[a] + 1] + ov[a] + st[a],
                               shape[a])]]

\* sliding_window(image, overlaps, strides): the tiles in the order yielded
sliding_window(shape, ov, st) ==
    LET rng == [a \in 1..2 |-> AxisRange(shape[a], ov[a], st[a])]
        n1  == Len(rng[1])
        n2  == Len(rng[2])
    IN  [k \in 1..(n1 * n2) |->
            Tile(<<(k - 1) \div n2, (k - 1) % n2>>, rng, shape, ov, st)]

\* sliding_window_3d(image, overlaps, strides): the tiles in the order yielded
sliding_window_3d(shape, ov, st) ==
    LET rng == [a \in 1..3 |-> AxisRange(shape[a], ov[a], st[a])]
        n1  == Len(rng[1])
        n2  == Len(rng[2])
        n3  == Len(rng[3])
    IN  [k \in 1..(n1 * n2 * n3) |->
            Tile(<<(k - 1) \div (n2 * n3), ((k - 1) \div n3) % n2, (k - 1) % n3>>,
                 rng, shape, ov, st)]

\* a weight: the fraction n / d
Frac(n, d) == [n |-> n, d |-> d]

FracMul(x, y) == Frac(x.n * y.n, x.d * y.d)

\* np.linspace(0, 1, num)[i] and np.linspace(1, 0, num)[i], num >= 1
LinspaceUp(num, i) == IF num = 1 THEN Frac(0, 1) ELSE Frac(i, num - 1)

\* the trailing ramp rising like the leading one
LinspaceDownRising(num, i) == IF num = 1 THEN Frac(0, 1) ELSE Frac(i, num - 1)

LinspaceDown(num, i) == IF num = 1 THEN Frac(1, 1) ELSE Frac(num - 1 - i, num - 1)

\* grid_k > 0
NotFirst(g) == g > 0

\* grid_k < max_grid_k
NotLastOrLast(g, maxGrid) == g <= maxGrid

NotLast(g, maxGrid) == g < maxGrid

\* the four ramp statements on weight_mat = np.ones(shapes), in order
WeightMat(g, maxGrid, W, ov) ==
    LET ones == [n \in Indices(W) |-> Frac(1, 1)]
        \* weight_mat[:overlaps[0], :] = np.linspace(0, 1, overlaps[0])[:, None]
        w1 == IF NotFirst(g[1])
              THEN [n \in Indices(W) |->
                      IF n[1] \in SliceTo(ov[1], W[1])
                      THEN LinspaceUp(ov[1], n[1]) ELSE ones[n]]
              ELSE ones
        \* weight_mat[-overlaps[0]:, :] = np.linspace(1, 0, overlaps[0])[:, None]
        w2 == IF NotLast(g[1], maxGrid[1])
              THEN [n \in Indices(W) |->
                      IF n[1] \in SliceFrom(-ov[1], W[1])
                      THEN LinspaceDown(ov[1], n[1] - NormIdx(-ov[1], W[1])) ELSE w1[n]]
              ELSE w1
        \* weight_mat[:, :overlaps[1]] *= np.linspace(0, 1, overlaps[1])[None, :]
        w3 == IF NotFirst(g[2])
              THEN [n \in Indices(W) |->
                      IF n[2] \in SliceTo(ov[2], W[2])
                      THEN FracMul(w2[n], LinspaceUp(ov[2], n[2])) ELSE w2[n]]
              ELSE w2
        \* weight_mat[:, -overlaps[1]:] *= np.linspace(1, 0, overlaps[1])[None, :]
        w4 == IF NotLast(g[2], maxGrid[2])
              THEN [n \in Indices(W) |->
                      IF n[2] \in SliceFrom(-ov[2], W[2])
                      THEN FracMul(w3[n], LinspaceDown(ov[2], n[2] - NormIdx(-ov[2], W[2])))
                      ELSE w3[n]]
              ELSE w3
    IN  Array(w4)

\* a ramp statement whose two sides cannot be broadcast together: a ramp of
\* overlaps[k] = 0 samples on an axis with more than one patch
RampFails(maxGrid, ov) == \E a \in 1..2 : ov[a] = 0 /\ maxGrid[a] > 0

\* create_weight_matrix_for_blending(img, overlaps, strides) on a 2-D frame:
\* the matrices in the order yielded
create_weight_matrix_for_blending(shape, ov, st) ==
    LET tiles   == sliding_window(shape, ov, st)
        maxGrid == [a \in 1..2 |-> Len(AxisRange(shape[a], ov[a], st[a])) - 1]
        W       == [a \in 1..2 |-> st[a] + ov[a]]
    IN  IF RampFails(maxGrid, ov)
        THEN [status |-> "ValueError", tiles |-> << >>, weights |-> << >>]
        ELSE [status |-> "ok", tiles |-> tiles,
              weights |-> Array([k \in 1..Len(tiles) |->
                             WeightMat(tiles[k].grid, maxGrid, W, ov)])]

\* the four ramp statements on a weight_mat of three axes: np.linspace(...)
\* [:, None] and [None, :] have two axes, so the ramp of axis 0 is laid along
\* axis 1 and the ramp of axis 1 along axis 2
WeightMat3d(g, maxGrid, W, ov) ==
    LET ones == [n \in Indices(W) |-> Frac(1, 1)]
        along(o, i) == IF o = 1 THEN 0 ELSE i
        w1 == IF NotFirst(g[1])
              THEN [n \in Indices(W) |->
                      IF n[1] \in SliceTo(ov[1], W[1])
                      THEN LinspaceUp(ov[1], along(ov[1], n[2])) ELSE ones[n]]
              ELSE ones
        w2 == IF NotLast(g[1], maxGrid[1])
              THEN [n \in Indices(W) |->
                      IF n[1] \in SliceFrom(-ov[1], W[1])
                      THEN LinspaceDown(ov[1], along(ov[1], n[2])) ELSE w1[n]]
              ELSE w1
        w3 == IF NotFirst(g[2])
              THEN [n \in Indices(W) |->
                      IF n[2] \in SliceTo(ov[2], W[2])
                      THEN FracMul(w2[n], LinspaceUp(ov[2], along(ov[2], n[3])))
                      ELSE w2[n]]
              ELSE w2
        w4 == IF NotLast(g[2], maxGrid[2])
              THEN [n \in Indices(W) |->
                      IF n[2] \in SliceFrom(-ov[2], W[2])
                      THEN FracMul(w3[n], LinspaceDown(ov[2], along(ov[2], n[3])))
                      ELSE w3[n]]
              ELSE w3
    IN  Array(w4)

\* a ramp statement on three axes whose two sides cannot be broadcast
\* together: the ramp of overlaps[k] samples meets the axis k + 1 of the block
RampFails3d(maxGrid, W, ov) ==
    \E a \in 1..2 : maxGrid[a] > 0 /\ ov[a] # 1 /\ ov[a] # W[a + 1]

\* create_weight_matrix_for_blending(img, overlaps, strides) on a 3-D frame:
\* one matrix per tile of the 2-D sliding_window over the axes 0 and 1
create_weight_matrix_for_blending_3d(shape, ov, st) ==
    LET tiles   == sliding_window(shape, ov, st)
        maxGrid == [a \in 1..2 |-> Len(AxisRange(shape[a], ov[a], st[a])) - 1]
        W       == [a \in 1..3 |-> st[a] + ov[a]]
    IN  IF RampFails3d(maxGrid, W, ov)
        THEN [status |-> "ValueError", tiles |-> << >>, weights |-> << >>]
        ELSE [status |-> "ok", tiles |-> tiles,
              weights |-> Array([k \in 1..Len(tiles) |->
                             WeightMat3d(tiles[k].grid, maxGrid, W, ov)])]

\* frames and grids, valid (strides + overlaps <= extent) or not
\* a denominator every weight of a grid with the given overlaps can be
\* written with: a weight is a product of at most two ramp values per axis
WeightDen(ov) ==
    (Max(1, ov[1] - 1) * Max(1, ov[2] - 1)) * (Max(1, ov[1] - 1) * Max(1, ov[2] - 1))

\* np.nansum over the patches k, ..., 1 of the weight at pixel n, in units of
\* 1 / WeightDen(ov); a patch that does not hold the pixel adds nothing
RECURSIVE WeightSum(_, _, _, _, _)
WeightSum(n, tiles, weights, ov, k) ==
    IF k = 0 THEN 0
    ELSE LET m == [a \in 1..2 |-> n[a] - tiles[k].org[a]]
             w == weights[k][m]
         IN  (IF \A a \in 1..2 : n[a] \in tiles[k].cells[a]
              THEN w.n * (WeightDen(ov) \div w.d) ELSE 0)
             + WeightSum(n, tiles, weights, ov, k - 1)

\* normalizer after the loop of the blending branch of tile_and_correct:
\* normalizer[x:x + newshapes[0], y:y + newshapes[1]] =
\*     np.nansum(np.dstack([~np.isnan(im) * 1 * weight_mat, prev_val_1]), -1)
\* for patches im without NaN; NaN where no patch wrote
Normalizer(shape, tiles, weights, ov) ==
    Array([n \in Indices(shape) |->
        IF \E k \in 1..Len(tiles) : \A a \in 1..2 : n[a] \in tiles[k].cells[a]
        THEN Frac(WeightSum(n, tiles, weights, ov, Len(tiles)), WeightDen(ov))
        ELSE [n |-> 0, d |-> 0]])

InitGrid ==
    /\ pc = "call"
    /\ ret = NoRet
    /\ \/ \E fn \in {"sliding_window", "create_weight_matrix_for_blending"},
             shape \in [1..2 -> 1..MaxExtent],
             ov \in [1..2 -> 0..MaxOverlap],
             st \in [1..2 -> 1..MaxStride] :
               call = [fn |-> fn, shape |-> shape, overlaps |-> ov, strides |-> st]
       \/ \E fn \in {"sliding_window_3d", "create_weight_matrix_for_blending"},
             shape \in [1..3 -> 1..MaxExtent3],
             ov \in [1..3 -> 0..MaxOverlap3],
             st \in [1..3 -> 1..MaxStride3] :
               call = [fn |-> fn, shape |-> shape, overlaps |-> ov, strides |-> st]

SlidingWindow ==
    /\ pc = "call"
    /\ call.fn = "sliding_window"
    /\ ret' = [status |-> "ok",
               tiles |-> sliding_window(call.shape, call.overlaps, call.strides),
               weights |-> << >>]
    /\ pc' = "done"
    /\ UNCHANGED call

SlidingWindow3d ==
    /\ pc = "call"
    /\ call.fn = "sliding_window_3d"
    /\ ret' = [status |-> "ok",
               tiles |-> sliding_window_3d(call.shape, call.overlaps, call.strides),
               weights |-> << >>]
    /\ pc' = "done"
    /\ UNCHANGED call

CreateWeightMatrixForBlending ==
    /\ pc = "call"
    /\ call.fn = "create_weight_matrix_for_blending"
    /\ ret' = IF Len(call.shape) = 2
               THEN create_weight_matrix_for_blending(call.shape, call.overlaps,
                                                      call.strides)
               ELSE create_weight_matrix_for_blending_3d(call.shape, call.overlaps,
                                                         call.strides)
    /\ pc' = "done"
    /\ UNCHANGED call

\* the blending loop of tile_and_correct over the weight matrices when no
\* shifted patch holds a NaN
AccumulateNormalizer ==
    /\ pc = "done"
    /\ call.fn = "create_weight_matrix_for_blending"
    /\ Len(call.shape) = 2
    /\ ret.status = "ok"
    /\ \A a \in 1..2 : call.strides[a] + call.overlaps[a] <= call.shape[a]
    /\ ret' = [normalizer |-> Normalizer(call.shape, ret.tiles, ret.weights,
                                          call.overlaps)] @@ ret
    /\ pc' = "blended"
    /\ UNCHANGED call

NextGrid ==
    \/ SlidingWindow \/ SlidingWindow3d \/ CreateWeightMatrixForBlending
    \/ AccumulateNormalizer

SpecGrid == InitGrid /\ [][NextGrid]_vars

(***************************************************************************)
(* Resampling: apply_shift_iteration and apply_shifts_dft.                 *)
(*                                                                         *)
(* A resampled array is followed pixel by pixel: every entry records which *)
(* entry of the frame handed to the engine it holds (at) and the constant  *)
(* added to it (add), or that it is a fill.  Shifts are whole pixels       *)
(* (upsample_factor_fft = 1), for which the cubic and the Fourier          *)
(* interpolation reproduce the samples; frames are positive, so the phase  *)
(* difference handed to apply_shifts_dft is zero.                          *)
(***************************************************************************)
\* the frame's entry at, plus add
Px(at, add) == [k |-> "px", at |-> at, add |-> add]

\* np.nan
NanPx == [k |-> "nan", at |-> << >>, add |-> 0]

\* cval = 0 of skimage.transform.warp
ZeroPx == [k |-> "zero", at |-> << >>, add |-> 0]

\* a value interpolated between several entries
MixPx == [k |-> "mix", at |-> << >>, add |-> 0]

\* np.nanmin(img) of an array of frame entries whose values are orig[at] + add
MinPx(img, shape, orig) ==
    LET least == CHOOSE n \in Indices(shape) : \A q \in Indices(shape) :
                     orig[img[n].at] + img[n].add <= orig[img[q].at] + img[q].add
    IN  [k |-> "min", at |-> img[least].at, add |-> img[least].add]

\* new_img - add_to_movie
SubtractAdd(img, shape, add) ==
    [n \in Indices(shape) |->
        IF img[n].k \in {"nan", "mix"} THEN img[n] ELSE [img[n] EXCEPT !.add = @ - add]]

\* cv2.BORDER_REFLECT: fedcba|abcdefgh|hgfedcb
ReflectIdx(i, N) ==
    LET r == i % (2 * N)
    IN  IF r < N THEN r ELSE 2 * N - 1 - r

\* cv2.BORDER_REPLICATE, mode='edge': aaaaaa|abcdefgh|hhhhhhh
ClampIdx(i, N) == Max(0, Min(i, N - 1))

\* the border statements of one axis: rows [:max_h] and, if min_h < 0,
\* rows [min_h:], with max_h = ceil(max(0, shift)), min_h = floor(min(0, shift))
BorderAxis(img, shape, a, s, mode, fill) ==
    LET N    == shape[a]
        maxk == Max(0, s)
        mink == Min(0, s)
        low  == SliceTo(maxk, N)
        high == IF mink < 0 THEN SliceFrom(mink, N) ELSE {}
        \* img[:max_h] = img[max_h]
        c1   == [n \in Indices(shape) |->
                    IF n[a] \in low THEN img[[n EXCEPT ![a] = maxk]] ELSE img[n]]
        \* img[min_h:] = img[min_h - 1]
        c2   == [n \in Indices(shape) |->
                    IF n[a] \in high THEN c1[[n EXCEPT ![a] = N + mink - 1]] ELSE c1[n]]
    IN  IF mode = "copy" THEN c2
        ELSE [n \in Indices(shape) |-> IF n[a] \in low \cup high THEN fill ELSE img[n]]

\* the border statements axis after axis, from axis a on
RECURSIVE BorderFrom(_, _, _, _, _, _)
BorderFrom(img, shape, shift, mode, fill, a) ==
    IF a > Len(shape) THEN img
    ELSE BorderFrom(BorderAxis(img, shape, a, shift[a], mode, fill),
                    shape, shift, mode, fill, a + 1)

\* border_nan: False, True, 'min' or 'copy'
BorderPolicy(img, shape, shift, border_nan, minpx) ==
    IF border_nan = "False" THEN img
    ELSE BorderFrom(img, shape, shift, border_nan,
                    IF border_nan = "True" THEN NanPx ELSE minpx, 1)

\* cv2.warpAffine(img, [[1, 0, shift[1]], [0, 1, shift[0]]]): dst[n] = src[n - shift]
WarpAffine(img, shape, shift) ==
    [n \in Indices(shape) |->
        img[[a \in 1..Len(shape) |-> ReflectIdx(n[a] - shift[a], shape[a])]]]

\* apply_shift_iteration(img, shift, border_nan); min_ is taken before warping
apply_shift_iteration(img, shape, shift, border_nan, orig) ==
    Array(BorderPolicy(WarpAffine(img, shape, shift), shape, shift, border_nan,
                       MinPx(img, shape, orig)))

\* Greg = src_freq * exp(2 pi i (-shifts . k / N)) and its inverse transform:
\* new_img[n] = img[n - shifts], circularly
PhaseRamp(img, shape, shift) == Roll(img, shift, shape)

\* apply_shifts_dft(src_freq, shifts, diffphase, is_freq, border_nan); min_ is
\* taken after the transform, over the same entries
apply_shifts_dft(img, shape, shift, border_nan, orig) ==
    Array(BorderPolicy(PhaseRamp(img, shape, shift), shape, shift, border_nan,
                       MinPx(img, shape, orig)))

(***************************************************************************)
(* The correction engine: tile_and_correct and tile_and_correct_3d.        *)
(*                                                                         *)
(* The template holds a different positive value in every entry and the    *)
(* frame is the template displaced circularly by call.e.  The output of    *)
(* high_pass_filter_space is real-valued; the filtered frame is an input:  *)
(* the template displaced by call.filt.                                    *)
(***************************************************************************)
\* longest axis of a frame handed to the engine
TileExtent == 4
\* largest displacement of the frame against the template, per axis
TileShift == 1
\* largest stride and overlap of the patch grid
TileStride == 2
TileOverlap == 1
\* largest add_to_movie
TileAdd == 1
\* longest axis of a 3-D frame handed to the engine
TileExtent3 == 3

\* the template
Label(shape) == Array([n \in Indices(shape) |-> 1 + Flat(n, shape)])

\* (-rigid_shts[0], -rigid_shts[1]) and (-x, -y)
NegateNot(s) == s

Negate(s) == [a \in 1..Len(s) |-> -s[a]]

\* a shift vector that is followed exactly
Known(v) == [known |-> TRUE, v |-> v]

\* a shift vector interpolated between different shifts of the coarse grid
Unknown(n) == [known |-> FALSE, v |-> [a \in 1..n |-> 0]]

\* the arguments of one call of the registration primitive by the engine
RegArgs(src, tgt, shape, bounded, lb, ub, ms) ==
    [shape |-> shape, tshape |-> shape, src |-> src, tgt |-> tgt, uf |-> 1,
     hasLb |-> bounded, hasUb |-> bounded, lb |-> lb, ub |-> ub, ms |-> ms]

\* it[-1] of a tile: image[x:x + windowSize[0], y:y + windowSize[1]]
Patch(img, tile, W) ==
    Array([m \in Indices(W) |-> img[[a \in 1..Len(W) |-> tile.org[a] + m[a]]]])

\* tuple(np.add(xy_grid[-1], 1))
DimGrid(tiles) == [a \in 1..Len(tiles[1].grid) |-> tiles[Len(tiles)].grid[a] + 1]

\* np.round(a / b) for a >= 0, b > 0: halves go to the even neighbour
RoundHalfEven(a, b) ==
    LET q == a \div b
        r == a % b
    IN  IF 2 * r < b THEN q
        ELSE IF 2 * r > b THEN q + 1
        ELSE IF q % 2 = 0 THEN q ELSE q + 1

\* cv2.resize(shift_img, dim_new_grid[::-1], INTER_CUBIC) of one component,
\* flat in C order: the same grid gives the field back and a constant field
\* stays constant; any other result is an interpolation that is not followed
ResizeField(f, g, g2) ==
    IF g = g2 THEN [known |-> TRUE, f |-> f]
    ELSE IF \A k \in 1..Len(f) : f[k] = f[1]
         THEN [known |-> TRUE, f |-> [k \in 1..Prod(g2, 1) |-> f[1]]]
         ELSE [known |-> FALSE, f |-> [k \in 1..Prod(g2, 1) |-> 0]]

\* np.max(np.abs(np.diff(f, axis=a))) of a field of dims g with g[a] > 1
DiffMax(f, g, a) ==
    LET pairs == {n \in Indices(g) : n[a] + 1 < g[a]}
        d(n)  == Abs(f[Flat([n EXCEPT ![a] = @ + 1], g) + 1] - f[Flat(n, g) + 1])
    IN  CHOOSE v \in {d(n) : n \in pairs} : \A n \in pairs : d(n) <= v

\* 4 * np.percentile(vs, 75) of four values: the third smallest plus a
\* quarter of the step to the largest
Percentile75x4(vs) ==
    LET i    == CHOOSE x \in 1..4 : \A y \in 1..4 : vs[y] <= vs[x]
        rest == (1..4) \ {i}
        j    == CHOOSE x \in rest : \A y \in rest : vs[y] <= vs[x]
    IN  3 * vs[j] + vs[i]

\* max_shear <= 0.5
ShearBelowHalfLe(fx, fy, g) ==
    Percentile75x4(<<DiffMax(fx, g, 1), DiffMax(fx, g, 2),
                     DiffMax(fy, g, 1), DiffMax(fy, g, 2)>>) <= 2

\* max_shear < 0.5 on the components x, y and the axes 0, 1
ShearBelowHalf(fx, fy, g) ==
    Percentile75x4(<<DiffMax(fx, g, 1), DiffMax(fx, g, 2),
                     DiffMax(fy, g, 1), DiffMax(fy, g, 2)>>) < 2

\* the blended stitch: new_img / normalizer after the loop has accumulated
\* np.nansum of im * weight_mat and of ~isnan(im) * weight_mat over the first
\* count patches.  Equal entries average to themselves, no valid entry of
\* non-zero weight leaves 0 / 0
Blend(shape, tiles, patches, weights, count) ==
    [n \in Indices(shape) |->
        LET local(k) == [a \in 1..Len(shape) |-> n[a] - tiles[k].org[a]]
            cover    == {k \in 1..count :
                            \A a \in 1..Len(shape) : n[a] \in tiles[k].cells[a]}
            valid    == {k \in cover : /\ weights[k][local(k)].n # 0
                                       /\ patches[k][local(k)].k # "nan"}
            parts    == {patches[k][local(k)] : k \in valid}
        IN  IF parts = {} THEN NanPx
            ELSE IF Cardinality(parts) = 1 THEN CHOOSE p \in parts : TRUE
            ELSE MixPx]

\* the same stitch with earlier patches kept over later ones
HardBoundariesFirst(shape, tiles, patches, W, half, count) ==
    [n \in Indices(shape) |->
        LET start(k) == [a \in 1..Len(shape) |->
                           IF tiles[k].grid[a] = 0 THEN tiles[k].org[a]
                           ELSE tiles[k].org[a] + half[a]]
            inside   == {k \in 1..count : \A a \in 1..Len(shape) :
                            start(k)[a] <= n[a] /\ n[a] < tiles[k].org[a] + W[a]}
        IN  IF inside = {} THEN NanPx
            ELSE LET first == CHOOSE k \in inside : \A j \in inside : k <= j
                 IN  patches[first][[a \in 1..Len(shape) |-> n[a] - tiles[first].org[a]]]]

\* the stitch without blending: every patch writes
\* new_img[x_start:x_end, y_start:y_end] = im[x_start - x:, y_start - y:],
\* later patches over earlier ones
HardBoundaries(shape, tiles, patches, W, half, count) ==
    [n \in Indices(shape) |->
        LET start(k) == [a \in 1..Len(shape) |->
                           IF tiles[k].grid[a] = 0 THEN tiles[k].org[a]
                           ELSE tiles[k].org[a] + half[a]]
            inside   == {k \in 1..count : \A a \in 1..Len(shape) :
                            start(k)[a] <= n[a] /\ n[a] < tiles[k].org[a] + W[a]}
        IN  IF inside = {} THEN NanPx
            ELSE LET last == CHOOSE k \in inside : \A j \in inside : j <= k
                 IN  patches[last][[a \in 1..Len(shape) |-> n[a] - tiles[last].org[a]]]]

\* cv2.resize(field, dims[::-1]) (INTER_LINEAR) along one axis of g samples
\* resized to N: destination x reads the samples LinearSrc and LinearSrc + 1
\* with the weights (2N - LinearFrac) / 2N and LinearFrac / 2N
LinearSrc(x, g, N) ==
    LET sx == ((2 * x + 1) * g - N) \div (2 * N)
    IN  IF sx < 0 THEN 0 ELSE IF sx >= g - 1 THEN g - 1 ELSE sx

LinearFrac(x, g, N) ==
    LET num == (2 * x + 1) * g - N
        sx  == num \div (2 * N)
    IN  IF sx < 0 \/ sx >= g - 1 THEN 0 ELSE num - 2 * N * sx

\* the resized field (flat f over the grid g) at pixel n of a 2-D frame,
\* times 4 * shape[1] * shape[2]
ResizeLinear(f, g, shape, n) ==
    LET s1 == LinearSrc(n[1], g[1], shape[1])
        f1 == LinearFrac(n[1], g[1], shape[1])
        s2 == LinearSrc(n[2], g[2], shape[2])
        f2 == LinearFrac(n[2], g[2], shape[2])
        at(i, j) == f[Flat(<<Min(i, g[1] - 1), Min(j, g[2] - 1)>>, g) + 1]
    IN  (2 * shape[1] - f1) * ((2 * shape[2] - f2) * at(s1, s2) + f2 * at(s1, s2 + 1))
        + f1 * ((2 * shape[2] - f2) * at(s1 + 1, s2) + f2 * at(s1 + 1, s2 + 1))

\* cvRound(32 * num / den): a map coordinate in the 1/32 pixel of cv2.remap
FixedPoint(num, den) == (64 * num + den) \div (2 * den)

\* cv2.remap(img, resize(shift_img_y) + x_grid, resize(shift_img_x) + y_grid,
\*           INTER_CUBIC, BORDER_REPLICATE): dst[r, c] = img[r + sx, c + sy];
\* a whole-pixel offset reads one entry, any other interpolates
Remap(img, shape, fx, fy, g) ==
    [n \in Indices(shape) |->
        LET den == 4 * shape[1] * shape[2]
            q   == <<FixedPoint(ResizeLinear(fx, g, shape, n), den),
                     FixedPoint(ResizeLinear(fy, g, shape, n), den)>>
        IN  IF q[1] % 32 = 0 /\ q[2] % 32 = 0
            THEN img[[a \in 1..2 |-> ClampIdx(n[a] + q[a] \div 32, shape[a])]]
            ELSE MixPx]

\* what the engine returns when it raises
TileRaised(err) ==
    [status |-> err, path |-> "none", new_img |-> << >>, total_shifts |-> << >>,
     raw |-> << >>, rigid_shts |-> << >>, coarse |-> << >>, grid |-> FALSE,
     start_step |-> << >>, xy_grid |-> << >>, window |-> << >>, patches |-> << >>,
     blend |-> "none"]

\* return new_img - add_to_movie, total_shifts, start_step, xy_grid, with what
\* the registration primitive gave for the frame (rigid_shts), for the coarse
\* patches (coarse) and for every returned shift (raw), and the shifted
\* patches before stitching
TileReturned(path, new_img, total, raw, rigid, coarse, tiles, W, patches, blend) ==
    [status |-> "ok", path |-> path, new_img |-> new_img, total_shifts |-> total,
     raw |-> raw, rigid_shts |-> rigid, coarse |-> coarse, grid |-> tiles # << >>,
     start_step |-> [k \in 1..Len(tiles) |-> tiles[k].org],
     xy_grid |-> [k \in 1..Len(tiles) |-> tiles[k].grid],
     window |-> W, patches |-> patches, blend |-> blend]

\* the part of tile_and_correct after the per-patch registration when
\* shifts_opencv is not set: upsampling of the field, shifting of the fine
\* patches, stitching
PiecewiseFrequency(c, orig, rigid, g, shfts) ==
    LET shape  == c.shape
        newov  == IF c.hasNewOverlaps THEN c.newoverlaps ELSE c.overlaps
        newst  == IF c.hasNewStrides THEN c.newstrides
                  ELSE [a \in 1..2 |-> RoundHalfEven(c.strides[a], c.ufgrid)]
        W      == [a \in 1..2 |-> newst[a] + newov[a]]
        tiles  == sliding_window(shape, newov, newst)
        g2     == DimGrid(tiles)
        up     == [a \in 1..2 |->
                     ResizeField([k \in 1..Len(shfts) |-> shfts[k][a]], g, g2)]
        known  == up[1].known /\ up[2].known
        raw    == [k \in 1..Len(tiles) |->
                     IF known THEN Known(<<up[1].f[k], up[2].f[k]>>) ELSE Unknown(2)]
        total  == [k \in 1..Len(tiles) |->
                     IF known THEN Known(Negate(raw[k].v)) ELSE Unknown(2)]
        imgPx  == [q \in Indices(shape) |-> Px(q, c.add)]
        shifted == Array([k \in 1..Len(tiles) |->
                     IF known
                     THEN apply_shifts_dft(Patch(imgPx, tiles[k], W), W, total[k].v,
                                           c.border, orig)
                     ELSE [m \in Indices(W) |-> MixPx]])
        weights == create_weight_matrix_for_blending(shape, newov, newst)
        blend  == ShearBelowHalf(up[1].f, up[2].f, g2)
        half   == [a \in 1..2 |-> newov[a] \div 2]
        new_img == IF ~known THEN [q \in Indices(shape) |-> MixPx]
                   ELSE IF blend
                        THEN Blend(shape, tiles, shifted, weights.weights, Len(tiles))
                        ELSE HardBoundaries(shape, tiles, shifted, W, half, Len(tiles))
    IN  \* range() arg 3 must not be zero
        IF \E a \in 1..2 : newst[a] = 0 THEN TileRaised("ValueError")
        \* np.max of an empty np.diff
        ELSE IF \E a \in 1..2 : g2[a] = 1 THEN TileRaised("ValueError")
        ELSE IF c.gSig THEN TileRaised("Exception")
        ELSE IF weights.status # "ok" THEN TileRaised(weights.status)
        ELSE TileReturned("piecewise_frequency", SubtractAdd(new_img, shape, c.add),
                          total, raw, rigid, shfts, tiles, W, shifted,
                          IF ~known THEN "unknown" ELSE IF blend THEN "blend" ELSE "hard")

\* tile_and_correct(img, template, strides, overlaps, max_shifts, newoverlaps,
\*                  newstrides, upsample_factor_grid, upsample_factor_fft = 1,
\*                  max_deviation_rigid, add_to_movie, shifts_opencv, gSig_filt,
\*                  border_nan)
tile_and_correct(c) ==
    LET shape    == c.shape
        label    == Label(shape)
        orig     == Array(Roll(label, c.e, shape))
        filtered == IF c.gSig THEN Array(Roll(label, c.filt, shape)) ELSE orig
        img      == Array([q \in Indices(shape) |-> filtered[q] + c.add])
        template == Array([q \in Indices(shape) |-> label[q] + c.add])
        \* the entries resampled by the fast paths: img_orig if filtered
        fastPx   == [q \in Indices(shape) |-> Px(q, IF c.gSig THEN 0 ELSE c.add)]
        imgPx    == [q \in Indices(shape) |-> Px(q, c.add)]
        rigid    == register_translation(
                        RegArgs(img, template, shape, FALSE, Origin(shape),
                                Origin(shape), c.ms), Origin(shape)).shifts
        W        == [a \in 1..2 |-> c.strides[a] + c.overlaps[a]]
        tiles    == sliding_window(shape, c.overlaps, c.strides)
        g        == DimGrid(tiles)
        \* np.ceil(rigid_shts - max_deviation_rigid), np.floor(rigid_shts + ...)
        lb       == [a \in 1..2 |-> rigid[a] - c.dev]
        ub       == [a \in 1..2 |-> rigid[a] + c.dev]
        shfts    == Array([k \in 1..Len(tiles) |->
                       register_translation(
                           RegArgs(Patch(img, tiles[k], W), Patch(template, tiles[k], W),
                                   W, c.hasDev, lb, ub, c.ms), Origin(W)).shifts])
    IN  IF c.hasDev /\ c.dev = 0
        THEN IF c.opencv
             THEN TileReturned("rigid_fast",
                      SubtractAdd(apply_shift_iteration(fastPx, shape, Negate(rigid),
                                                        c.border, orig), shape, c.add),
                      <<Known(Negate(rigid))>>, <<Known(rigid)>>, rigid, << >>,
                      << >>, << >>, << >>, "none")
             ELSE IF c.gSig THEN TileRaised("Exception")
             ELSE TileReturned("rigid_frequency",
                      SubtractAdd(apply_shifts_dft(imgPx, shape, Negate(rigid),
                                                   c.border, orig), shape, c.add),
                      <<Known(Negate(rigid))>>, <<Known(rigid)>>, rigid, << >>,
                      << >>, << >>, << >>, "none")
        ELSE IF c.opencv
             THEN TileReturned("piecewise_fast",
                      SubtractAdd(Remap(fastPx, shape,
                                        [k \in 1..Len(tiles) |-> shfts[k][1]],
                                        [k \in 1..Len(tiles) |-> shfts[k][2]], g),
                                  shape, c.add),
                      [k \in 1..Len(tiles) |-> Known(Negate(shfts[k]))],
                      [k \in 1..Len(tiles) |-> Known(shfts[k])], rigid, shfts,
                      << >>, << >>, << >>, "none")
             ELSE PiecewiseFrequency(c, orig, rigid, g, shfts)

\* dim_new_grid[::-1]
Reverse(g) == [a \in 1..Len(g) |-> g[Len(g) + 1 - a]]

\* resize_sk(shift_img, output_shape) of one component to n entries: the
\* result is clipped to the range of the input, so a constant field stays
\* constant; any other result is an interpolation that is not followed
ResizeSk(f, n) ==
    IF \A k \in 1..Len(f) : f[k] = f[1]
    THEN [known |-> TRUE, f |-> [k \in 1..n |-> f[1]]]
    ELSE [known |-> FALSE, f |-> [k \in 1..n |-> 0]]

\* warp_sk(img, shift + grid, order=3, mode, cval) for the same whole-pixel
\* shift s at every entry: out[p] = img[p + s], outside the frame the edge
\* entry (mode = 'edge') or cval
WarpSk(img, shape, s, border_nan, fill) ==
    [p \in Indices(shape) |->
        LET q == [a \in 1..Len(shape) |-> p[a] + s[a]]
        IN  IF \A a \in 1..Len(shape) : 0 <= q[a] /\ q[a] < shape[a] THEN img[q]
            ELSE IF border_nan = "copy"
                 THEN img[[a \in 1..Len(shape) |-> ClampIdx(q[a], shape[a])]]
                 ELSE fill]

\* np.dstack joins arrays of three axes along the last one, so
\* np.nansum(np.dstack([...]), -1) has the axes (W0, W1): it is stored in a
\* block of shape W only if it broadcasts to it
DstackFits(W) == (W[2] = W[3] \/ W[2] = 1) /\ (W[1] = W[2] \/ W[1] = 1)

\* the blended stitch of tile_and_correct_3d over the first count patches:
\* blocks of one entry accumulate as in Blend, in any larger block every
\* entry written is a sum over the depth of the block
Blend3d(shape, tiles, patches, weights, count, W) ==
    IF \A a \in 1..3 : W[a] = 1 THEN Blend(shape, tiles, patches, weights, count)
    ELSE [n \in Indices(shape) |->
            IF \E k \in 1..count : \A a \in 1..3 : n[a] \in tiles[k].cells[a]
            THEN MixPx ELSE NanPx]

\* the part of tile_and_correct_3d after the per-patch registration when
\* shifts_opencv is not set; smooth is max_shear < 0.5 for a field whose
\* interpolation is not followed
PiecewiseFrequency3d(c, orig, rigid, g, shfts, smooth) ==
    LET shape  == c.shape
        newov  == IF c.hasNewOverlaps THEN c.newoverlaps ELSE c.overlaps
        newst  == IF c.hasNewStrides THEN c.newstrides
                  ELSE [a \in 1..3 |-> RoundHalfEven(c.strides[a], c.ufgrid)]
        W      == [a \in 1..3 |-> newst[a] + newov[a]]
        tiles  == sliding_window_3d(shape, newov, newst)
        g2     == DimGrid(tiles)
        up     == [a \in 1..3 |->
                     ResizeSk([k \in 1..Len(shfts) |-> shfts[k][a]], Len(tiles))]
        known  == \A a \in 1..3 : up[a].known
        raw    == [k \in 1..Len(tiles) |->
                     IF known THEN Known(<<up[1].f[k], up[2].f[k], up[3].f[k]>>)
                     ELSE Unknown(3)]
        total  == [k \in 1..Len(tiles) |->
                     IF known THEN Known(Negate(raw[k].v)) ELSE Unknown(3)]
        imgPx  == [q \in Indices(shape) |-> Px(q, c.add)]
        shifted == Array([k \in 1..Len(tiles) |->
                     IF known
                     THEN apply_shifts_dft(Patch(imgPx, tiles[k], W), W, total[k].v,
                                           c.border, orig)
                     ELSE [m \in Indices(W) |-> MixPx]])
        weights == create_weight_matrix_for_blending_3d(shape, newov, newst)
        \* zip stops at the shorter of the patches and the weight matrices
        count  == Min(Len(tiles), Len(weights.weights))
        blend  == IF known THEN ShearBelowHalf(up[1].f, up[2].f, Reverse(g2))
                  ELSE smooth
        half   == [a \in 1..3 |-> newov[a] \div 2]
        new_img == IF blend
                   THEN Blend3d(shape, tiles, shifted, weights.weights, count, W)
                   ELSE HardBoundaries(shape, tiles, shifted, W, half, count)
    IN  \* range() arg 3 must not be zero
        IF \E a \in 1..3 : newst[a] = 0 THEN TileRaised("ValueError")
        \* np.max of an empty np.diff along the axes 0, 1 of the resized field
        ELSE IF \E a \in 1..2 : Reverse(g2)[a] = 1 THEN TileRaised("ValueError")
        ELSE IF c.gSig THEN TileRaised("Exception")
        ELSE IF weights.status # "ok" THEN TileRaised(weights.status)
        ELSE IF blend /\ ~DstackFits(W) THEN TileRaised("ValueError")
        ELSE TileReturned("piecewise_frequency", SubtractAdd(new_img, shape, c.add),
                          total, raw, rigid, shfts, tiles, W, shifted,
                          IF blend THEN "blend" ELSE "hard")
             \* the shape of resize_sk(shift_img_x, dim_new_grid[::-1], order=3)
             @@ [upsampled |-> Reverse(g2)]

\* tile_and_correct_3d(img, template, strides, overlaps, max_shifts,
\*                     newoverlaps, newstrides, upsample_factor_grid,
\*                     upsample_factor_fft = 1, max_deviation_rigid,
\*                     add_to_movie, shifts_opencv, gSig_filt, border_nan)
tile_and_correct_3d(c, smooth) ==
    LET shape    == c.shape
        label    == Label(shape)
        orig     == Array(Roll(label, c.e, shape))
        filtered == IF c.gSig THEN Array(Roll(label, c.filt, shape)) ELSE orig
        img      == Array([q \in Indices(shape) |-> filtered[q] + c.add])
        template == Array([q \in Indices(shape) |-> label[q] + c.add])
        \* the entries resampled by the fast path: img_orig if filtered
        fastPx   == [q \in Indices(shape) |-> Px(q, IF c.gSig THEN 0 ELSE c.add)]
        imgPx    == [q \in Indices(shape) |-> Px(q, c.add)]
        rigid    == register_translation_3d(
                        RegArgs(img, template, shape, FALSE, Origin(shape),
                                Origin(shape), c.ms), Origin(shape)).shifts
        W        == [a \in 1..3 |-> c.strides[a] + c.overlaps[a]]
        tiles    == sliding_window_3d(shape, c.overlaps, c.strides)
        g        == DimGrid(tiles)
        lb       == [a \in 1..3 |-> rigid[a] - c.dev]
        ub       == [a \in 1..3 |-> rigid[a] + c.dev]
        shfts    == Array([k \in 1..Len(tiles) |->
                       register_translation_3d(
                           RegArgs(Patch(img, tiles[k], W), Patch(template, tiles[k], W),
                                   W, c.hasDev, lb, ub, c.ms), Origin(W)).shifts])
        dense    == [a \in 1..3 |->
                       ResizeSk([k \in 1..Len(tiles) |-> shfts[k][a]], Prod(shape, 1))]
        fill     == IF c.border = "True" THEN NanPx
                    ELSE IF c.border = "min" THEN MinPx(fastPx, shape, orig)
                    ELSE ZeroPx
        m_reg    == IF \A a \in 1..3 : dense[a].known
                    THEN WarpSk(fastPx, shape, shfts[1], c.border, fill)
                    ELSE [q \in Indices(shape) |-> MixPx]
    IN  IF c.hasDev /\ c.dev = 0
        THEN IF c.gSig THEN TileRaised("Exception")
             ELSE TileReturned("rigid_frequency",
                      SubtractAdd(apply_shifts_dft(imgPx, shape, Negate(rigid),
                                                   c.border, orig), shape, c.add),
                      <<Known(Negate(rigid))>>, <<Known(rigid)>>, rigid, << >>,
                      << >>, << >>, << >>, "none")
        ELSE IF c.opencv
             THEN TileReturned("piecewise_fast", SubtractAdd(m_reg, shape, c.add),
                      [k \in 1..Len(tiles) |-> Known(Negate(shfts[k]))],
                      [k \in 1..Len(tiles) |-> Known(shfts[k])], rigid, shfts,
                      << >>, << >>, << >>, "none")
             ELSE PiecewiseFrequency3d(c, orig, rigid, g, shfts, smooth)

(***************************************************************************)
(* Calls of the correction engine.                                         *)
(***************************************************************************)
\* largest max_deviation_rigid
MaxDeviation == 1
\* largest upsample_factor_grid
MaxUpsampleGrid == 2

BorderModes == {"False", "True", "min", "copy"}

\* a grid whose windows fit the frame
FitsFrame(shape, st, ov) == \A a \in 1..Len(shape) : st[a] + ov[a] <= shape[a]

\* the 2-D frames handed to the engine
TileShapes2 == [1..2 -> (TileExtent - 1)..TileExtent]

\* the 3-D frames handed to the engine: the first or the last axis is short
TileShapes3 ==
    {<<TileExtent3 - 1, TileExtent3, TileExtent3>>,
     <<TileExtent3, TileExtent3, TileExtent3 - 1>>}

\* the displacement of the frame against the template: along one axis, or
\* the same along all
TileShifts(n) ==
    {OnAxis(n, a, v, 0) : a \in 1..n, v \in (-TileShift)..TileShift}
    \cup {[a \in 1..n |-> v] : v \in (-TileShift)..TileShift}

\* a call with the defaults of the signature: max_deviation_rigid given,
\* add_to_movie = 0, shifts_opencv = False, gSig_filt = None,
\* border_nan = True, newoverlaps = newstrides = None
TileCall(fn, shape, e, st, ov, m, dev, ufgrid) ==
    [fn |-> fn, shape |-> shape, e |-> e, gSig |-> FALSE, filt |-> e,
     strides |-> st, overlaps |-> ov, ms |-> Const(shape, m),
     hasDev |-> TRUE, dev |-> dev, opencv |-> FALSE, border |-> "True", add |-> 0,
     hasNewOverlaps |-> FALSE, newoverlaps |-> ov,
     hasNewStrides |-> FALSE, newstrides |-> st, ufgrid |-> ufgrid]

\* rigid correction, every border policy
InitTileRigid ==
    \E shape \in TileShapes2, e \in TileShifts(2), m \in {1, TileShift + 1},
       opencv \in BOOLEAN, border \in BorderModes, add \in {0, TileAdd} :
        call = [TileCall("tile_and_correct", shape, e, Const(shape, 1),
                         Const(shape, 0), m, 0, 1)
                   EXCEPT !.opencv = opencv, !.border = border, !.add = add]

\* piecewise correction over the grids, with and without max_deviation_rigid
InitTilePiecewise ==
    \E shape \in TileShapes2, e \in TileShifts(2),
       s \in 1..TileStride,
       ov \in {<<o, o>> : o \in 0..TileOverlap}
              \cup {<<0, TileOverlap>>, <<TileOverlap, 0>>},
       opencv \in BOOLEAN, hasDev \in BOOLEAN :
        /\ FitsFrame(shape, Const(shape, s), ov)
        /\ call = [TileCall("tile_and_correct", shape, e, Const(shape, s), ov,
                            TileShift + 1, MaxDeviation, 1)
                      EXCEPT !.opencv = opencv, !.hasDev = hasDev]

\* piecewise correction on one grid, every border policy
InitTileBorders ==
    \E shape \in TileShapes2, e \in TileShifts(2),
       opencv \in BOOLEAN, border \in BorderModes, add \in 0..TileAdd :
        /\ FitsFrame(shape, Const(shape, TileStride), Const(shape, TileOverlap))
        /\ call = [TileCall("tile_and_correct", shape, e, Const(shape, TileStride),
                            Const(shape, TileOverlap), TileShift + 1, MaxDeviation, 1)
                      EXCEPT !.opencv = opencv, !.border = border, !.add = add]

\* the fine grid: given by newstrides and newoverlaps, or made from
\* upsample_factor_grid
InitTileNewGrid ==
    \E shape \in TileShapes2, e \in TileShifts(2),
       s \in 1..TileStride, o \in 0..TileOverlap,
       hasNewStrides \in BOOLEAN, hasNewOverlaps \in BOOLEAN,
       ufgrid \in 1..MaxUpsampleGrid :
        /\ FitsFrame(shape, Const(shape, TileStride), Const(shape, TileOverlap))
        /\ FitsFrame(shape, Const(shape, s), Const(shape, Max(o, TileOverlap)))
        /\ hasNewStrides => ufgrid = 1
        /\ ~hasNewStrides => s = 1 /\ o = 0 /\ ~hasNewOverlaps
        /\ call = [TileCall("tile_and_correct", shape, e, Const(shape, TileStride),
                            Const(shape, TileOverlap), TileShift + 1, MaxDeviation,
                            ufgrid)
                      EXCEPT !.hasNewStrides = hasNewStrides,
                             !.newstrides = Const(shape, s),
                             !.hasNewOverlaps = hasNewOverlaps,
                             !.newoverlaps = Const(shape, o)]

\* a filtered frame (gSig_filt given): what the filter leaves of the
\* displacement is open
InitTileFiltered ==
    \E shape \in TileShapes2, e \in TileShifts(2), d \in -1..1,
       opencv \in BOOLEAN, dev \in 0..MaxDeviation, add \in 0..TileAdd :
        /\ FitsFrame(shape, Const(shape, TileStride), Const(shape, TileOverlap))
        /\ call = [TileCall("tile_and_correct", shape, e, Const(shape, TileStride),
                            Const(shape, TileOverlap), TileShift + 1, dev, 1)
                      EXCEPT !.gSig = TRUE, !.filt = [e EXCEPT ![1] = @ + d],
                             !.opencv = opencv, !.add = add]

\* 3-D rigid correction, every border policy
InitTile3dRigid ==
    \E shape \in TileShapes3, e \in TileShifts(3), border \in BorderModes,
       add \in {0, TileAdd} :
        call = [TileCall("tile_and_correct_3d", shape, e, Const(shape, 1),
                         Const(shape, 0), TileShift + 1, 0, 1)
                   EXCEPT !.border = border, !.add = add]

\* 3-D piecewise correction over the grids of one stride, without overlap or
\* with the largest
InitTile3dPiecewise ==
    \E shape \in TileShapes3, e \in TileShifts(3),
       s \in 1..TileStride, o \in {0, TileOverlap},
       opencv \in BOOLEAN, hasDev \in BOOLEAN :
        /\ FitsFrame(shape, Const(shape, s), Const(shape, o))
        /\ call = [TileCall("tile_and_correct_3d", shape, e, Const(shape, s),
                            Const(shape, o), TileShift + 1, MaxDeviation, 1)
                      EXCEPT !.opencv = opencv, !.hasDev = hasDev]

\* 3-D piecewise correction on the grid of stride 1, every border policy
InitTile3dBorders ==
    \E shape \in TileShapes3, e \in TileShifts(3),
       opencv \in BOOLEAN, border \in BorderModes :
        /\ FitsFrame(shape, Const(shape, 1), Const(shape, TileOverlap))
        /\ call = [TileCall("tile_and_correct_3d", shape, e, Const(shape, 1),
                            Const(shape, TileOverlap), TileShift + 1, MaxDeviation, 1)
                      EXCEPT !.opencv = opencv, !.border = border, !.add = TileAdd]

\* the 3-D fine grid: given by newstrides, or made from upsample_factor_grid
InitTile3dNewGrid ==
    \E shape \in TileShapes3, e \in TileShifts(3), s \in 1..TileStride,
       hasNewStrides \in BOOLEAN, ufgrid \in 1..MaxUpsampleGrid :
        /\ FitsFrame(shape, Const(shape, 1), Const(shape, TileOverlap))
        /\ FitsFrame(shape, Const(shape, s), Const(shape, TileOverlap))
        /\ hasNewStrides => ufgrid = 1
        /\ ~hasNewStrides => s = 1
        /\ call = [TileCall("tile_and_correct_3d", shape, e, Const(shape, 1),
                            Const(shape, TileOverlap), TileShift + 1, MaxDeviation,
                            ufgrid)
                      EXCEPT !.hasNewStrides = hasNewStrides,
                             !.newstrides = Const(shape, s)]

\* a filtered 3-D frame
InitTile3dFiltered ==
    \E shape \in TileShapes3, e \in TileShifts(3), d \in 0..1,
       opencv \in BOOLEAN, dev \in 0..MaxDeviation :
        /\ FitsFrame(shape, Const(shape, 1), Const(shape, TileOverlap))
        /\ call = [TileCall("tile_and_correct_3d", shape, e, Const(shape, 1),
                            Const(shape, TileOverlap), TileShift + 1, dev, 1)
                      EXCEPT !.gSig = TRUE, !.filt = [e EXCEPT ![1] = @ + d],
                             !.opencv = opencv, !.add = TileAdd]

InitTile ==
    /\ pc = "call"
    /\ ret = NoRet
    /\ \/ InitTileRigid
       \/ InitTilePiecewise
       \/ InitTileBorders
       \/ InitTileNewGrid
       \/ InitTileFiltered
       \/ InitTile3dRigid
       \/ InitTile3dPiecewise
       \/ InitTile3dBorders
       \/ InitTile3dNewGrid
       \/ InitTile3dFiltered

TileAndCorrect ==
    /\ pc = "call"
    /\ call.fn = "tile_and_correct"
    /\ ret' = tile_and_correct(call)
    /\ pc' = "done"
    /\ UNCHANGED call

\* max_shear, read by the piecewise frequency-domain path, is open when the
\* field is interpolated
TileAndCorrect3d ==
    /\ pc = "call"
    /\ call.fn = "tile_and_correct_3d"
    /\ \E smooth \in IF call.opencv \/ (call.hasDev /\ call.dev = 0)
                     THEN {TRUE} ELSE BOOLEAN :
          ret' = tile_and_correct_3d(call, smooth)
    /\ pc' = "done"
    /\ UNCHANGED call

\* cv2.remap(img, -cv2.resize(shiftY, dims[::-1]) + x_grid,
\*           -cv2.resize(shiftX, dims[::-1]) + y_grid, INTER_CUBIC, borderMode)
\* for the offsets fx, fy already negated: dst[r, c] = img[r + fx, c + fy],
\* outside the frame the border value (BORDER_CONSTANT) or the edge entry
\* (BORDER_REPLICATE, border_nan = 'copy')
RemapMovie(img, shape, fx, fy, g, border, fill) ==
    [n \in Indices(shape) |->
        LET den == 4 * shape[1] * shape[2]
            q   == <<FixedPoint(ResizeLinear(fx, g, shape, n), den),
                     FixedPoint(ResizeLinear(fy, g, shape, n), den)>>
            at  == [a \in 1..2 |-> n[a] + q[a] \div 32]
        IN  IF q[1] % 32 = 0 /\ q[2] % 32 = 0
            THEN IF \A a \in 1..2 : 0 <= at[a] /\ at[a] < shape[a] THEN img[at]
                 ELSE IF border = "copy"
                      THEN img[[a \in 1..2 |-> ClampIdx(at[a], shape[a])]]
                      ELSE fill
            ELSE MixPx]

\* the sampling offset MotionCorrect.apply_shifts_movie adds to the coordinate
\* grid for a stored shift (x_shifts_els, y_shifts_els, z_shifts_els): the
\* 2-D branch negates it, the 3-D branch adds it as it is
AppliedOffset(is3D, stored) == IF is3D THEN stored ELSE Negate(stored)

\* MotionCorrect.apply_shifts_movie(fname) with pw_rigid set, for the frame
\* the stored shifts r.total_shifts were measured on and the grid of
\* self.strides, self.overlaps
apply_shifts_movie(c, r) ==
    LET shape  == c.shape
        is3D   == Len(shape) = 3
        orig   == Array(Roll(Label(shape), c.e, shape))
        Y      == [q \in Indices(shape) |-> Px(q, 0)]
        tiles  == IF is3D THEN sliding_window_3d(shape, c.overlaps, c.strides)
                  ELSE sliding_window(shape, c.overlaps, c.strides)
        g      == DimGrid(tiles)
        off    == Array([k \in 1..Len(r.total_shifts) |->
                      AppliedOffset(is3D, r.total_shifts[k].v)])
        fill   == IF c.border = "True" THEN NanPx
                  ELSE IF c.border = "min" THEN MinPx(Y, shape, orig)
                  ELSE ZeroPx
        dense  == [a \in 1..Len(shape) |->
                      ResizeSk([k \in 1..Len(off) |-> off[k][a]], Prod(shape, 1))]
        m_reg  == IF is3D
                  THEN IF \A a \in 1..3 : dense[a].known
                       THEN WarpSk(Y, shape, off[1], c.border, fill)
                       ELSE [q \in Indices(shape) |-> MixPx]
                  ELSE RemapMovie(Y, shape, [k \in 1..Len(off) |-> off[k][1]],
                                  [k \in 1..Len(off) |-> off[k][2]], g, c.border, fill)
    IN  [applied |-> off, m_reg |-> Array(m_reg)] @@ r

\* the shifts of a piecewise correction by the fast path are applied to the
\* movie again
ApplyShiftsMovie ==
    /\ pc = "done"
    /\ ret.status = "ok"
    /\ ret.path = "piecewise_fast"
    /\ ret' = apply_shifts_movie(call, ret)
    /\ pc' = "applied"
    /\ UNCHANGED call

NextTile == TileAndCorrect \/ TileAndCorrect3d \/ ApplyShiftsMovie

SpecTile == InitTile /\ [][NextTile]_vars

(***************************************************************************)
(* The border statements of apply_shift_iteration and apply_shifts_dft for *)
(* shifts of whole and half pixels.  A shift is given by its number of     *)
(* half pixels on each axis.  For a shift that is not whole on every axis  *)
(* the resampled entries are interpolated values (finite for a finite      *)
(* frame).                                                                 *)
(***************************************************************************)
\* longest axis of a frame handed to the appliers
BorderExtent == 3

\* largest shift, in half pixels
BorderHalves == 3

\* np.ceil(h / 2) and np.floor(h / 2)
CeilHalf(h) == IF h >= 0 THEN (h + 1) \div 2 ELSE -((-h) \div 2)

FloorHalf(h) == -CeilHalf(-h)

\* the same with the shift truncated toward zero
BorderCutTrunc(h) == IF h >= 0 THEN h \div 2 ELSE -((-h) \div 2)

\* max_h = ceil(max(0, shift)) and min_h = floor(min(0, shift)) of one axis, as
\* the whole shift with the same two values
BorderCut(h) == Max(0, CeilHalf(Max(0, h))) + Min(0, FloorHalf(Min(0, h)))

\* img[max_h] or img[min_h - 1] outside the axis, in the 'copy' statements
CopyIndexError(shape, cut) ==
    \E a \in 1..Len(shape) :
        \/ cut[a] > 0 /\ cut[a] >= shape[a]
        \/ cut[a] < 0 /\ cut[a] - 1 < -shape[a]

\* the entries after resampling by h half pixels, before the border
\* statements: the samples for a whole shift, interpolated values otherwise
Resampled(fn, img, shape, h) ==
    IF \A a \in 1..Len(shape) : h[a] % 2 = 0
    THEN LET s == [a \in 1..Len(shape) |-> IF h[a] >= 0 THEN h[a] \div 2
                                                         ELSE -((-h[a]) \div 2)]
         IN  IF fn = "apply_shift_iteration" THEN WarpAffine(img, shape, s)
             ELSE PhaseRamp(img, shape, s)
    ELSE [n \in Indices(shape) |-> MixPx]

\* apply_shift_iteration(img, shift, border_nan) and apply_shifts_dft(img,
\* shifts, diffphase, is_freq=False, border_nan) for a shift of h half pixels
ApplyShift(fn, shape, h, border_nan) ==
    LET orig == Label(shape)
        img  == [q \in Indices(shape) |-> Px(q, 0)]
        cut  == [a \in 1..Len(shape) |-> BorderCut(h[a])]
    IN  IF border_nan = "copy" /\ CopyIndexError(shape, cut)
        THEN [status |-> "IndexError", img |-> << >>]
        ELSE [status |-> "ok",
              img |-> Array(BorderPolicy(Resampled(fn, img, shape, h), shape, cut,
                                         border_nan, MinPx(img, shape, orig)))]

InitBorder ==
    /\ pc = "call"
    /\ ret = NoRet
    /\ \/ \E fn \in {"apply_shift_iteration", "apply_shifts_dft"},
             shape \in [1..2 -> 1..BorderExtent],
             h \in [1..2 -> -BorderHalves..BorderHalves],
             border \in BorderModes :
               call = [fn |-> fn, shape |-> shape, h |-> h, border |-> border]
       \/ \E shape \in [1..3 -> (BorderExtent - 1)..BorderExtent],
             h \in [1..3 -> -BorderHalves..BorderHalves],
             border \in BorderModes :
               call = [fn |-> "apply_shifts_dft", shape |-> shape, h |-> h,
                       border |-> border]

ApplyShiftIteration ==
    /\ pc = "call"
    /\ call.fn = "apply_shift_iteration"
    /\ ret' = ApplyShift(call.fn, call.shape, call.h, call.border)
    /\ pc' = "done"
    /\ UNCHANGED call

ApplyShiftsDft ==
    /\ pc = "call"
    /\ call.fn = "apply_shifts_dft"
    /\ ret' = ApplyShift(call.fn, call.shape, call.h, call.border)
    /\ pc' = "done"
    /\ UNCHANGED call

NextBorder == ApplyShiftIteration \/ ApplyShiftsDft

SpecBorder == InitBorder /\ [][NextBorder]_vars

(***************************************************************************)
(* The orchestration: motion_correct_batch_rigid and                       *)
(* motion_correct_batch_pwrigid iterate motion_correction_piecewise, which *)
(* creates the output file if saving is on and hands one job per chunk of  *)
(* frames to tile_and_correct_wrapper.  The position in the orchestrator   *)
(* is pc, its local variables are the fields of ret.  A template or        *)
(* add_to_movie is followed by what it contains: finite values only, a NaN *)
(* ("nan"), or an infinity and no NaN ("inf"); the movie is finite.        *)
(***************************************************************************)
\* largest num_iter
MaxIter == 2

\* largest splits and num_splits_to_process
MaxSplits == 2

\* largest step of subidx
MaxStep == 2

\* frames of the movie
MaxFrames == 3

\* chunks that share their boundary frame with the next chunk
ArraySplitOverlapping(T, splits, c) ==
    LET size  == T \div splits + (IF c <= T % splits THEN 1 ELSE 0)
        start == (c - 1) * (T \div splits) + Min(c - 1, T % splits)
    IN  start..Min(start + size, T - 1)

\* np.array_split(list(range(T)), splits)[c - 1]: the first T % splits chunks
\* hold one frame more
ArraySplit(T, splits, c) ==
    LET size  == T \div splits + (IF c <= T % splits THEN 1 ELSE 0)
        start == (c - 1) * (T \div splits) + Min(c - 1, T % splits)
    IN  start..(start + size - 1)

\* -np.min(template): NaN for a template that holds a NaN
MinusMin(templ) == templ

\* add_to_movie as the orchestrator uses it: the argument, or -np.min(template)
\* when it is None
AddToMovie(add, templ) == IF add = "none" THEN MinusMin(templ) ELSE add

\* how the current template was made: the caller's (or the initial estimate),
\* or after iteration iter the median over the chunk means of the jobs in
\* of, high-pass filtered or not
CallerTemplate == [iter |-> -1, of |-> {}, filtered |-> FALSE]

\* the local variables of an orchestrator
BatchState(status, iter, templ, add) ==
    [status |-> status, iter |-> iter, templ |-> templ, add |-> add,
     save |-> FALSE, fname_tot |-> "none", jobs |-> << >>, pending |-> {},
     res |-> << >>, files |-> {}, writes |-> {}, dispatched |-> {},
     made |-> CallerTemplate, outv |-> << >>, shifts |-> << >>]

\* save_movie as motion_correct_batch_pwrigid hands it on in iteration iter:
\* `save_movie = save_movie` in the last iteration leaves the argument as it is
SaveMoviePwrigid(c, iter) == c.save

\* save_movie as motion_correct_batch_rigid hands it on in iteration iter:
\* False, and save_movie_rigid in the last iteration
SaveMovieRigid(c, iter) == IF iter = c.num_iter - 1 THEN c.save ELSE FALSE

\* list(range(T)[subidx]) for subidx = slice(None, None, step); step 0 stands
\* for subidx = None
Subindexed(T, step) ==
    IF step = 0 THEN [i \in 1..T |-> i - 1]
    ELSE [i \in 1..CeilDiv(T, step) |-> (i - 1) * step]

\* motion_correction_piecewise up to the dispatch: the chunks (index groups
\* given as splits, or a random draw picks of num_splits chunks, turn saving
\* off), the output file created with np.memmap(mode='w+') if save_movie, one
\* job per chunk
motion_correction_piecewise(c, st, save_movie, picks) ==
    LET rng   == Subindexed(c.T, c.subidx)
        all   == IF c.groups # << >> THEN c.groups
                 ELSE [k \in 1..c.splits |->
                         {rng[i + 1] : i \in ArraySplit(Len(rng), c.splits, k)}]
        idxs  == IF c.num_splits = 0 THEN all
                 ELSE [k \in 1..c.num_splits |-> all[picks[k]]]
        save  == save_movie /\ c.groups = << >> /\ c.num_splits = 0
        fname == IF save THEN "mmap" ELSE "none"
    IN  [st EXCEPT !.save = save,
                   !.fname_tot = fname,
                   !.files = IF save THEN @ \cup {st.iter} ELSE @,
                   !.outv = IF save THEN Array([t \in 1..c.T |-> [iter |-> -1, job |-> 0]])
                            ELSE @,
                   !.jobs = Array([k \in 1..Len(idxs) |->
                               [out_fname |-> fname, idxs |-> idxs[k],
                                template |-> st.templ, made |-> st.made]]),
                   !.pending = 1..Len(idxs),
                   !.res = Array([k \in 1..Len(idxs) |-> [done |-> FALSE]]),
                   !.dispatched = @ \cup {[iter |-> st.iter, templ |-> st.templ]}]

\* the frames of a chunk in the order cm.load(subindices=idxs) reads them
RECURSIVE Ascending(_)
Ascending(S) ==
    IF S = {} THEN << >>
    ELSE LET lo == CHOOSE x \in S : \A y \in S : x <= y
         IN  <<lo>> \o Ascending(S \ {lo})

\* shift_info of a job: one entry [total_shift, start_step, xy_grid] per frame
\* read, here the frame and the iteration the shift was measured in
ShiftInfo(st, k) ==
    LET frames == Ascending(st.jobs[k].idxs)
    IN  Array([i \in 1..Len(frames) |-> [frame |-> frames[i], iter |-> st.iter]])

\* tile_and_correct_wrapper(params) for the job at position k: the frames
\* idxs are corrected against the template and, if out_fname is not None,
\* written to the columns idxs of the file
tile_and_correct_wrapper(st, k) ==
    [st EXCEPT !.pending = @ \ {k},
               !.res[k] = [done |-> TRUE, idxs |-> st.jobs[k].idxs,
                           shift_info |-> ShiftInfo(st, k),
                           new_temp |-> [iter |-> st.iter, job |-> k]],
               !.writes = IF st.jobs[k].out_fname # "none"
                          THEN @ \cup {[iter |-> st.iter, job |-> k,
                                        idxs |-> st.jobs[k].idxs]}
                          ELSE @,
               \* outv[:, idxs] = ...: column t is entry t + 1
               !.outv = IF st.jobs[k].out_fname # "none"
                        THEN Array([t \in 1..Len(@) |->
                                 IF t - 1 \in st.jobs[k].idxs
                                 THEN [iter |-> st.iter, job |-> k] ELSE @[t]])
                        ELSE @]

\* the templates np.nanmedian of the chunk means can give: finite for a
\* finite template; for a template that is not finite the corrected frames
\* depend on the path taken, and the median may or may not be finite
NanMedian(templ) == IF templ = "finite" THEN {"finite"} ELSE {"finite", templ}

\* dview.map(...) hands every result over without waiting for the jobs
MapReturnedEarly(st) == TRUE

\* res = dview.map_sync(tile_and_correct_wrapper, pars), map_async(...).get()
\* or list(map(...)): the call returns when every job has returned
MapReturned(st) == st.pending = {}

\* new_templ = np.nanmedian(np.dstack([r[-1] for r in res]), -1), then
\* high_pass_filter_space(new_templ, gSig_filt) if gSig_filt is set
NewTemplate(c, st) ==
    [iter |-> st.iter,
     of |-> {st.res[k].new_temp.job : k \in {j \in 1..Len(st.res) : st.res[j].done}},
     filtered |-> c.gSig]

InitBatch ==
    /\ pc = "start"
    /\ \/ \E fn \in {"motion_correct_batch_rigid", "motion_correct_batch_pwrigid"},
          num_iter \in 0..MaxIter, save \in BOOLEAN, splits \in 1..MaxSplits,
          num_splits \in 0..MaxSplits,
          template \in {"none", "finite", "nan", "inf"},
          add \in {"none", "finite", "nan"}, gSig \in BOOLEAN :
            call = [fn |-> fn, num_iter |-> num_iter, save |-> save, T |-> MaxFrames,
                    splits |-> splits, num_splits |-> num_splits,
                    template |-> template, add |-> add, gSig |-> gSig,
                    subidx |-> 0, groups |-> << >>]
       \/ \E save \in BOOLEAN, subidx \in 0..MaxStep, num_splits \in 0..MaxSplits,
             splits \in 1..MaxSplits, template \in {"none", "finite"},
             groups \in {<< >>, <<0..(MaxFrames - 1)>>, <<{0}, {0, MaxFrames - 1}>>} :
            /\ splits <= Len(Subindexed(MaxFrames, subidx))
            /\ call = [fn |-> "motion_correction_piecewise", num_iter |-> 1,
                       save |-> save, T |-> MaxFrames, splits |-> splits,
                       num_splits |-> num_splits, template |-> template,
                       add |-> "finite", gSig |-> FALSE, subidx |-> subidx,
                       groups |-> groups]
    /\ ret = BatchState("running", 0, call.template, call.add)

\* motion_correct_batch_rigid before its loop: a missing template is the
\* median of a corrected sample of the movie; NaN add_to_movie raises
RigidStart ==
    /\ pc = "start"
    /\ call.fn = "motion_correct_batch_rigid"
    /\ LET templ == IF call.template = "none" THEN "finite" ELSE call.template
           add   == AddToMovie(call.add, templ)
       IN  IF add = "nan"
           THEN /\ ret' = BatchState("Exception", 0, templ, add)
                /\ pc' = "raised"
           ELSE /\ ret' = BatchState("running", 0, templ, add)
                /\ pc' = "loop"
    /\ UNCHANGED call

\* motion_correct_batch_pwrigid before its loop: a missing template raises,
\* np.isnan(None) raises, NaN add_to_movie raises
PwrigidStart ==
    /\ pc = "start"
    /\ call.fn = "motion_correct_batch_pwrigid"
    /\ IF call.template = "none"
       THEN /\ ret' = BatchState("Exception", 0, call.template, call.add)
            /\ pc' = "raised"
       ELSE IF call.add = "none"
       THEN /\ ret' = BatchState("TypeError", 0, call.template, call.add)
            /\ pc' = "raised"
       ELSE IF call.add = "nan"
       THEN /\ ret' = BatchState("Exception", 0, call.template, call.add)
            /\ pc' = "raised"
       ELSE /\ ret' = BatchState("running", 0, call.template, call.add)
            /\ pc' = "loop"
    /\ UNCHANGED call

\* one pass of the loop of motion_correct_batch_rigid up to the dispatch
RigidIterate ==
    /\ pc = "loop"
    /\ call.fn = "motion_correct_batch_rigid"
    /\ ret.iter < call.num_iter
    /\ \E picks \in [1..call.num_splits -> 1..call.splits] :
          ret' = motion_correction_piecewise(call, ret,
                                             SaveMovieRigid(call, ret.iter), picks)
    /\ pc' = "workers"
    /\ UNCHANGED call

\* one pass of the loop of motion_correct_batch_pwrigid up to the dispatch
PwrigidIterate ==
    /\ pc = "loop"
    /\ call.fn = "motion_correct_batch_pwrigid"
    /\ ret.iter < call.num_iter
    /\ \E picks \in [1..call.num_splits -> 1..call.splits] :
          ret' = motion_correction_piecewise(call, ret,
                                             SaveMoviePwrigid(call, ret.iter), picks)
    /\ pc' = "workers"
    /\ UNCHANGED call

\* a worker runs one of the jobs handed out, in any order
TileAndCorrectWrapper ==
    /\ pc = "workers"
    /\ \E k \in ret.pending : ret' = tile_and_correct_wrapper(ret, k)
    /\ pc' = "workers"
    /\ UNCHANGED call

\* all results are in: new_templ is their median, the loop goes on
RigidCollect ==
    /\ pc = "workers"
    /\ call.fn = "motion_correct_batch_rigid"
    /\ MapReturned(ret)
    /\ \E templ \in NanMedian(ret.templ) :
          ret' = [ret EXCEPT !.templ = templ, !.iter = @ + 1,
                             !.made = NewTemplate(call, ret)]
    /\ pc' = "loop"
    /\ UNCHANGED call

\* only the shifts of the last chunk are kept
ShiftsLastChunk(res) ==
    IF res = << >> THEN << >>
    ELSE SubSeq(res[Len(res)].shift_info, 1,
                Min(Len(res[Len(res)].shift_info), Cardinality(res[Len(res)].idxs)))

\* the shift list built after the loop: for every result in the order of
\* res, the entries of shift_info[:len(idxs)] (motion_correct_batch_pwrigid:
\* of zip(shift_info_chunk, idxs_chunk)) are appended
RECURSIVE Shifts(_)
Shifts(res) ==
    IF res = << >> THEN << >>
    ELSE Shifts(SubSeq(res, 1, Len(res) - 1))
         \o SubSeq(res[Len(res)].shift_info, 1,
                   Min(Len(res[Len(res)].shift_info), Cardinality(res[Len(res)].idxs)))

RigidReturn ==
    /\ pc = "loop"
    /\ call.fn = "motion_correct_batch_rigid"
    /\ ret.iter = call.num_iter
    /\ ret' = [ret EXCEPT !.status = "ok", !.shifts = Shifts(ret.res)]
    /\ pc' = "returned"
    /\ UNCHANGED call

PwrigidCollect ==
    /\ pc = "workers"
    /\ call.fn = "motion_correct_batch_pwrigid"
    /\ MapReturned(ret)
    /\ \E templ \in NanMedian(ret.templ) :
          ret' = [ret EXCEPT !.templ = templ, !.iter = @ + 1,
                             !.made = NewTemplate(call, ret)]
    /\ pc' = "loop"
    /\ UNCHANGED call

\* after the loop motion_correct_batch_pwrigid reads res_el, which is bound
\* only inside the loop
PwrigidReturn ==
    /\ pc = "loop"
    /\ call.fn = "motion_correct_batch_pwrigid"
    /\ ret.iter = call.num_iter
    /\ IF call.num_iter = 0
       THEN /\ ret' = [ret EXCEPT !.status = "UnboundLocalError"]
            /\ pc' = "raised"
       ELSE /\ ret' = [ret EXCEPT !.status = "ok", !.shifts = Shifts(ret.res)]
            /\ pc' = "returned"
    /\ UNCHANGED call

\* motion_correction_piecewise called by itself, up to the dispatch
MotionCorrectionPiecewise ==
    /\ pc = "start"
    /\ call.fn = "motion_correction_piecewise"
    /\ IF call.template = "none"
       THEN /\ ret' = [ret EXCEPT !.status = "Exception"]
            /\ pc' = "raised"
       ELSE /\ \E picks \in [1..call.num_splits ->
                                1..(IF call.groups # << >> THEN Len(call.groups)
                                    ELSE call.splits)] :
                  ret' = motion_correction_piecewise(call, ret, call.save, picks)
            /\ pc' = "workers"
    /\ UNCHANGED call

\* return fname_tot, res
MotionCorrectionPiecewiseReturn ==
    /\ pc = "workers"
    /\ call.fn = "motion_correction_piecewise"
    /\ MapReturned(ret)
    /\ ret' = [ret EXCEPT !.status = "ok"]
    /\ pc' = "returned"
    /\ UNCHANGED call

NextBatch ==
    \/ RigidStart \/ PwrigidStart \/ RigidIterate \/ PwrigidIterate
    \/ TileAndCorrectWrapper \/ RigidCollect \/ PwrigidCollect
    \/ RigidReturn \/ PwrigidReturn
    \/ MotionCorrectionPiecewise \/ MotionCorrectionPiecewiseReturn

SpecBatch == InitBatch /\ [][NextBatch]_vars

(***************************************************************************)
(* Properties of the registration primitive.                               *)
(***************************************************************************)
Returned == pc = "done" /\ ret.status = "ok"

Axes == 1..Len(call.shape)

\* a call of the function written for the rank of its arguments
RankMatches == call.fn = FnFor(call.shape)

\* the circular autocorrelation of the source image
AutoCorr == CrossCorrelation(call.src, call.src, call.shape)

AutoPeakUnique ==
    \A k \in Indices(call.shape) \ {Origin(call.shape)} :
        AutoCorr[k] < AutoCorr[Origin(call.shape)]

AutoPeakUniqueAbs ==
    \A k \in Indices(call.shape) \ {Origin(call.shape)} :
        Abs(AutoCorr[k]) < AutoCorr[Origin(call.shape)]

ShiftWithinMax == \A a \in Axes : Abs(call.d[a]) < call.ms[a]

ShiftBelowHalf == \A a \in Axes : 2 * Abs(call.d[a]) < call.shape[a]

RecoversShift == \A a \in Axes : ret.shifts[a] = -call.d[a]

\* C1 (as stated): an image whose circular autocorrelation has a unique
\* maximum at zero lag, registered with upsample_factor 1 against its copy
\* rolled by (dx,dy), |dx| < max_shifts[0], |dy| < max_shifts[1], gives
\* exactly (-dx,-dy).
C1_RoundTripAsStated ==
    (Returned /\ AutoPeakUnique /\ ShiftWithinMax) => RecoversShift

\* C1 (amended): the same, for images whose autocorrelation has its unique
\* maximum of absolute value at zero lag and for shifts below half the
\* axis length on each axis.
C1_RoundTrip ==
    (Returned /\ AutoPeakUniqueAbs /\ ShiftWithinMax /\ ShiftBelowHalf) => RecoversShift

C1_Witness ==
    /\ Returned /\ AutoPeakUniqueAbs /\ ShiftWithinMax /\ ShiftBelowHalf
    /\ call.d[1] = 1 /\ call.d[2] = -1
    /\ ret.shifts = <<-1, 1>>
    /\ \E q \in Indices(call.shape) \ {Origin(call.shape)} : call.src[q] = -1

\* C4 (as stated): on every axis of length N >= 2 the whole-pixel shift s
\* is congruent to the peak index modulo N and -N/2 <= s < N/2.
C4_WrapAsStated ==
    Returned =>
        \A a \in Axes :
            call.shape[a] >= 2 =>
                /\ (ret.pixel[a] - ret.peak[a]) % call.shape[a] = 0
                /\ -call.shape[a] <= 2 * ret.pixel[a]
                /\ 2 * ret.pixel[a] < call.shape[a]

\* C4 (amended): on every axis of length N >= 2 the whole-pixel shift s is
\* congruent to the peak index modulo N and -N/2 < s <= N/2.
C4_Wrap ==
    Returned =>
        \A a \in Axes :
            call.shape[a] >= 2 =>
                /\ (ret.pixel[a] - ret.peak[a]) % call.shape[a] = 0
                /\ -call.shape[a] < 2 * ret.pixel[a]
                /\ 2 * ret.pixel[a] <= call.shape[a]

C4_Witness ==
    /\ Returned
    /\ \E a \in Axes :
        /\ call.shape[a] = 4 /\ ret.peak[a] = 2 /\ ret.pixel[a] = 2
    /\ \E a \in Axes :
        /\ call.shape[a] = 3 /\ ret.peak[a] = 2 /\ ret.pixel[a] = -1

WellFormedBounds ==
    /\ call.hasLb /\ call.hasUb
    /\ \A a \in Axes :
        /\ call.lb[a] <= call.ub[a]
        /\ 2 * Abs(call.lb[a]) < call.shape[a]
        /\ 2 * Abs(call.ub[a]) < call.shape[a]

\* C5: with bounds shifts_lb <= shifts_ub, both below half the axis length,
\* the bins left unmasked on each axis are exactly those whose wrapped shift
\* s satisfies shifts_lb <= s <= shifts_ub.
C5_BoundedWindowInclusive ==
    (Returned /\ RankMatches /\ WellFormedBounds) =>
        \A a \in Axes : \A b \in 0..(call.shape[a] - 1) :
            (b \notin ret.masked[a]) <=>
                (call.lb[a] <= WrapShift(b, call.shape[a])
                    /\ WrapShift(b, call.shape[a]) <= call.ub[a])

\* C6: without bounds the bins left unmasked on each axis are exactly those
\* whose wrapped shift s satisfies -max_shifts <= s <= max_shifts.
C6_DefaultWindowSymmetric ==
    (Returned /\ RankMatches /\ ~call.hasLb /\ ~call.hasUb) =>
        \A a \in Axes : \A b \in 0..(call.shape[a] - 1) :
            (b \notin ret.masked[a]) <=>
                (-call.ms[a] <= WrapShift(b, call.shape[a])
                    /\ WrapShift(b, call.shape[a]) <= call.ms[a])

\* C7: the shift returned on an axis of length 1 is exactly 0.
C7_DegenerateAxisZero ==
    Returned => \A a \in Axes : call.shape[a] = 1 => ret.shifts[a] = 0

C7_Witness ==
    /\ Returned /\ call.uf > 1
    /\ \E a \in Axes : call.shape[a] = 1 /\ ret.shifts[a] = 0
    /\ \E a \in Axes : call.shape[a] > 1 /\ ret.shifts[a] # ret.pixel[a] * call.uf

\* C8: a shift is returned only for valid input: equal shapes, a supported
\* rank when upsample_factor > 1, and bounds that are both given or both
\* absent with shifts_lb <= shifts_ub on every axis.
C8_InvalidInputRaises ==
    Returned =>
        /\ call.shape = call.tshape
        /\ call.uf > 1 => RankMatches
        /\ call.hasLb <=> call.hasUb
        /\ call.hasLb => \A a \in Axes : call.lb[a] <= call.ub[a]

(***************************************************************************)
(* Properties of the patch grid.                                           *)
(***************************************************************************)
GridAxes == 1..Len(call.shape)

WindowSize == [a \in GridAxes |-> call.strides[a] + call.overlaps[a]]

\* strides >= 1, overlaps >= 0 and strides + overlaps <= extent on each axis
ValidGrid ==
    \A a \in GridAxes :
        call.strides[a] >= 1 /\ call.overlaps[a] >= 0 /\ WindowSize[a] <= call.shape[a]

TilesReturned ==
    /\ pc = "done"
    /\ call.fn \in {"sliding_window", "sliding_window_3d"}

\* C9: for a valid grid the tiles cover every array index, every tile has
\* exactly shape strides + overlaps and lies inside the array, the last tile
\* on each axis ends at the array's far edge, and no two tiles share an origin.
C9_TilesCover ==
    (TilesReturned /\ ValidGrid) =>
        LET tiles == ret.tiles
            K     == 1..Len(tiles)
        IN  /\ \A idx \in Indices(call.shape) :
                   \E k \in K : \A a \in GridAxes : idx[a] \in tiles[k].cells[a]
            /\ \A k \in K : \A a \in GridAxes :
                   /\ tiles[k].org[a] >= 0
                   /\ tiles[k].org[a] + WindowSize[a] <= call.shape[a]
                   /\ tiles[k].cells[a] =
                          tiles[k].org[a]..(tiles[k].org[a] + WindowSize[a] - 1)
            /\ \A a \in GridAxes :
                   \E k \in K :
                       /\ \A l \in K : tiles[l].grid[a] <= tiles[k].grid[a]
                       /\ tiles[k].org[a] + WindowSize[a] = call.shape[a]
            /\ \A k \in K : \A l \in K : tiles[k].org = tiles[l].org => k = l

\* a grid whose last tile is clamped: its origin is no multiple of the stride
C9_Witness ==
    /\ TilesReturned /\ ValidGrid
    /\ call.fn = "sliding_window"
    /\ call.shape = <<6, 5>> /\ call.strides = <<2, 2>> /\ call.overlaps = <<1, 0>>
    /\ Len(ret.tiles) = 9
    /\ ret.tiles[9].org = <<3, 3>>

FracEq(x, y) == x.n * y.d = y.n * x.d

\* the per-axis profile: a linear ramp 0 -> 1 over the first ov samples if
\* the patch is not the first, 1 -> 0 over the last ov samples if it is not
\* the last, 1 elsewhere
RampProfile(i, W, ov, first, last) ==
    IF ~first /\ i < ov THEN Frac(i, ov - 1)
    ELSE IF ~last /\ i >= W - ov THEN Frac(W - 1 - i, ov - 1)
    ELSE Frac(1, 1)

WeightsReturned ==
    /\ pc = "done"
    /\ call.fn = "create_weight_matrix_for_blending"
    /\ ret.status = "ok"

\* the number of patches along an axis
PatchCount(a) ==
    IF call.shape[a] <= WindowSize[a] THEN 1
    ELSE CeilDiv(call.shape[a] - WindowSize[a], call.strides[a]) + 1

\* C10: on a 2-D frame with 2 <= overlaps <= strides every yielded matrix is
\* the product over the two axes of the per-axis ramp profile of its patch;
\* a single-patch axis gets no ramp.
C10_WeightIsProductOfRamps ==
    (WeightsReturned /\ Len(call.shape) = 2
                     /\ \A a \in 1..2 : 2 <= call.overlaps[a]
                                          /\ call.overlaps[a] <= call.strides[a]) =>
        /\ Len(ret.weights) = PatchCount(1) * PatchCount(2)
        /\ \A k \in 1..Len(ret.weights) :
            LET g == <<(k - 1) \div PatchCount(2), (k - 1) % PatchCount(2)>>
            IN  \A n \in Indices(WindowSize) :
                    FracEq(ret.weights[k][n],
                           FracMul(RampProfile(n[1], WindowSize[1], call.overlaps[1],
                                               g[1] = 0, g[1] = PatchCount(1) - 1),
                                   RampProfile(n[2], WindowSize[2], call.overlaps[2],
                                               g[2] = 0, g[2] = PatchCount(2) - 1)))

\* an interior patch (ramps on all four edges) next to a single-patch axis case
C10_Witness ==
    /\ WeightsReturned
    /\ call.shape = <<7, 7>> /\ call.strides = <<2, 2>> /\ call.overlaps = <<2, 2>>
    /\ Len(ret.weights) = 9
    /\ FracEq(ret.weights[5][<<0, 1>>], Frac(0, 1))
    /\ FracEq(ret.weights[5][<<1, 1>>], Frac(1, 1))
    /\ FracEq(ret.weights[5][<<3, 3>>], Frac(0, 1))
    /\ FracEq(ret.weights[1][<<0, 0>>], Frac(1, 1))

\* the tiles of the patch grid over the array of the call: sliding_window on a
\* 2-D frame, sliding_window_3d on a 3-D frame
GridTiles ==
    IF Len(call.shape) = 2
    THEN sliding_window(call.shape, call.overlaps, call.strides)
    ELSE sliding_window_3d(call.shape, call.overlaps, call.strides)

\* C11: for a valid grid with overlaps >= 1, on a 2-D and on a 3-D frame,
\* create_weight_matrix_for_blending yields one weight matrix per tile of the
\* patch grid (sliding_window, sliding_window_3d) over the same array, and the
\* k-th matrix is made for the grid position of the k-th tile (compared on
\* the axes the generator enumerates).
C11_OneWeightPerTile ==
    (/\ pc = "done"
     /\ call.fn = "create_weight_matrix_for_blending"
     /\ ValidGrid
     /\ \A a \in GridAxes : call.overlaps[a] >= 1) =>
        /\ ret.status = "ok"
        /\ Len(ret.weights) = Len(GridTiles)
        /\ \A k \in 1..Len(ret.weights) :
              /\ \A a \in DOMAIN ret.tiles[k].grid :
                    ret.tiles[k].grid[a] = GridTiles[k].grid[a]
              /\ DOMAIN ret.weights[k] = Indices(WindowSize)

(***************************************************************************)
(* Properties of the correction engine.                                    *)
(***************************************************************************)
\* the engine has returned
TileDone ==
    /\ pc = "done"
    /\ call.fn \in {"tile_and_correct", "tile_and_correct_3d"}
    /\ ret.status = "ok"

\* the patches the per-patch registration ran on
CoarseTiles ==
    IF call.fn = "tile_and_correct"
    THEN sliding_window(call.shape, call.overlaps, call.strides)
    ELSE sliding_window_3d(call.shape, call.overlaps, call.strides)

\* every returned shift that is followed negates the shift it was made from
ReturnsNegation ==
    /\ Len(ret.total_shifts) = Len(ret.raw)
    /\ \A k \in 1..Len(ret.raw) :
          /\ ret.total_shifts[k].known = ret.raw[k].known
          /\ ret.raw[k].known =>
                ret.total_shifts[k].v = [a \in 1..Len(call.shape) |-> -ret.raw[k].v[a]]

\* the shifts negated are those of the registration primitive: of the frame
\* in the rigid paths, of the patches in the piecewise fast path
RawIsRegistered ==
    /\ ret.path \in {"rigid_fast", "rigid_frequency"} =>
          ret.raw = <<Known(ret.rigid_shts)>>
    /\ ret.path = "piecewise_fast" =>
          ret.raw = [k \in 1..Len(ret.coarse) |-> Known(ret.coarse[k])]

\* entry n of the block out (of the given shape, cut from the frame at org)
\* holds the frame's entry org + n - t
HoldsDisplaced(out, n, t, org) ==
    /\ out[n].k = "px"
    /\ out[n].at = [a \in 1..Len(n) |-> org[a] + n[a] - t[a]]

\* out is the block displaced by t: every entry whose source n - t lies in
\* the block holds that source
Displaced(out, shape, t, org) ==
    \A n \in Indices(shape) :
        (\A a \in 1..Len(shape) : 0 <= n[a] - t[a] /\ n[a] - t[a] < shape[a])
            => HoldsDisplaced(out, n, t, org)

\* the corrected frame holds, within the window of coarse patch k, the frame
\* displaced by the shift returned for that patch
PatchDisplaced(k) ==
    \A n \in Indices(call.shape) :
        (\A a \in 1..Len(call.shape) :
            /\ n[a] \in CoarseTiles[k].cells[a]
            /\ 0 <= n[a] - ret.total_shifts[k].v[a]
            /\ n[a] - ret.total_shifts[k].v[a] < call.shape[a])
            => HoldsDisplaced(ret.new_img, n, ret.total_shifts[k].v, Origin(call.shape))

\* rigid paths: the frame is displaced by the returned shift
RigidDisplaced ==
    ret.path \in {"rigid_fast", "rigid_frequency"} =>
        Displaced(ret.new_img, call.shape, ret.total_shifts[1].v, Origin(call.shape))

\* piecewise frequency-domain path: every fine patch is displaced by its
\* returned shift before the stitch
FinePatchesDisplaced ==
    ret.path = "piecewise_frequency" =>
        \A k \in 1..Len(ret.total_shifts) :
            ret.total_shifts[k].known =>
                Displaced(ret.patches[k], ret.window, ret.total_shifts[k].v,
                          ret.start_step[k])

\* all patches returned the same shift
UniformShifts == \A k \in 1..Len(ret.total_shifts) : ret.total_shifts[k] = ret.total_shifts[1]

\* C3 as stated: in every path of tile_and_correct and tile_and_correct_3d
\* each returned shift is the exact negation of the shift of the registration
\* primitive for that frame or patch, and the frame or patch content is
\* displaced by exactly that returned shift -- in the piecewise fast path
\* too, patch by patch
C3_ShiftNegatedAndAppliedAsStated ==
    TileDone =>
        /\ ReturnsNegation
        /\ RawIsRegistered
        /\ RigidDisplaced
        /\ FinePatchesDisplaced
        /\ ret.path = "piecewise_fast" =>
              \A k \in 1..Len(ret.total_shifts) : PatchDisplaced(k)

\* C3 amended: every returned shift is the exact negation of the shift of the
\* registration primitive; the frame (rigid paths) and every fine patch
\* (piecewise frequency-domain path) is displaced by exactly the returned
\* shift wherever the source entry exists; in the piecewise fast path, where
\* the frame is resampled through the field interpolated between the
\* patches, this holds when all patches returned the same shift
C3_ShiftNegatedAndApplied ==
    TileDone =>
        /\ ReturnsNegation
        /\ RawIsRegistered
        /\ RigidDisplaced
        /\ FinePatchesDisplaced
        /\ (ret.path = "piecewise_fast" /\ UniformShifts) =>
              \A k \in 1..Len(ret.total_shifts) : PatchDisplaced(k)

\* a piecewise frequency-domain correction whose patches returned different
\* shifts, each applied to its patch
C3_Witness ==
    /\ TileDone
    /\ ret.path = "piecewise_frequency"
    /\ \A k \in 1..Len(ret.total_shifts) : ret.total_shifts[k].known
    /\ \E k, j \in 1..Len(ret.total_shifts) :
          /\ ret.total_shifts[k].v # ret.total_shifts[j].v
          /\ ret.total_shifts[k].v # Origin(call.shape)
          /\ \E m \in Indices(ret.window) :
                /\ ret.patches[k][m].k = "px"
                /\ ret.patches[k][m].at # [a \in 1..Len(m) |-> ret.start_step[k][a] + m[a]]

\* the per-patch registration has run with a window around the rigid shift
PatchesRegistered ==
    /\ TileDone
    /\ ret.coarse # << >>
    /\ call.hasDev /\ call.dev > 0

\* C12: with max_deviation_rigid = d > 0 every per-patch shift obtained from
\* the registration primitive by tile_and_correct and tile_and_correct_3d is
\* within d of the whole-frame rigid shift on every axis.
C12_PatchShiftWithinDeviation ==
    PatchesRegistered =>
        \A k \in 1..Len(ret.coarse) : \A a \in 1..Len(call.shape) :
            Abs(ret.coarse[k][a] - ret.rigid_shts[a]) <= call.dev

\* C13: with max_deviation_rigid > 0 tile_and_correct and tile_and_correct_3d
\* return, with the list of per-patch shifts, a list of patch origins and a
\* list of grid coordinates (never None) of the same length, in the fast path
\* as in the frequency-domain path.
C13_GridReturnedWithShifts ==
    (TileDone /\ call.hasDev /\ call.dev > 0) =>
        /\ ret.grid
        /\ Len(ret.start_step) = Len(ret.total_shifts)
        /\ Len(ret.xy_grid) = Len(ret.total_shifts)

\* an applier has returned a frame under border policy true
BorderApplied ==
    /\ pc = "done"
    /\ call.fn \in {"apply_shift_iteration", "apply_shifts_dft"}
    /\ call.border = "True"
    /\ ret.status = "ok"

\* C14: with border policy true and a finite frame, a pixel of the result of
\* apply_shifts_dft (2-D and 3-D) and of apply_shift_iteration (2-D) is NaN if
\* and only if on some axis a its index i satisfies i < ceil(max(0, s_a)) or
\* i >= N_a + floor(min(0, s_a)).  With s_a = h_a / 2 and whole i:
\* i < ceil(s_a) is 2 i < h_a, and i - N_a >= floor(s_a) is 2 (i - N_a) >= h_a - 1.
C14_NanBorderSet ==
    BorderApplied =>
        \A n \in Indices(call.shape) :
            (ret.img[n].k = "nan") <=>
                \E a \in 1..Len(call.shape) :
                    \/ 2 * n[a] < Max(0, call.h[a])
                    \/ 2 * (n[a] - call.shape[a]) >= Min(0, call.h[a]) - 1
                       /\ call.h[a] < 0

\* a shift of 1.5 pixels forward on axis 0 and half a pixel backward on axis
\* 1 of a 3x3 frame: rows 0 and 1 and column 2 are NaN, the rest is not
C14_Witness ==
    /\ BorderApplied
    /\ call.fn = "apply_shifts_dft"
    /\ call.shape = <<3, 3>> /\ call.h = <<3, -1>>
    /\ ret.img[<<1, 0>>].k = "nan"
    /\ ret.img[<<2, 2>>].k = "nan"
    /\ ret.img[<<2, 0>>].k = "mix"
    /\ ret.img[<<2, 1>>].k = "mix"

\* entry n of the corrected frame takes its sample from outside the frame:
\* n - t leaves the frame on some axis, t being the shift returned for every
\* patch
SampleOutside(n) ==
    \E a \in 1..Len(call.shape) :
        \/ n[a] - ret.total_shifts[1].v[a] < 0
        \/ n[a] - ret.total_shifts[1].v[a] >= call.shape[a]

\* C15: in the piecewise fast path of tile_and_correct and tile_and_correct_3d
\* (all patches returning the same shift) an entry whose sample falls outside
\* the frame is NaN under border_nan true, the frame minimum under 'min', the
\* nearest edge entry under 'copy', and neither of the two fills under false.
C15_FastPathBorder ==
    (TileDone /\ ret.path = "piecewise_fast" /\ UniformShifts) =>
        \A n \in Indices(call.shape) :
            SampleOutside(n) =>
                /\ call.border = "True" => ret.new_img[n].k = "nan"
                /\ call.border = "min" => ret.new_img[n].k = "min"
                /\ call.border = "copy" =>
                      /\ ret.new_img[n].k = "px"
                      /\ ret.new_img[n].at =
                            [a \in 1..Len(call.shape) |->
                                ClampIdx(n[a] - ret.total_shifts[1].v[a], call.shape[a])]
                /\ call.border = "False" => ret.new_img[n].k \notin {"nan", "min"}

\* the frequency-domain piecewise path of tile_and_correct has returned and
\* the upsampled field is followed
FieldReturned ==
    /\ TileDone
    /\ call.fn = "tile_and_correct"
    /\ ret.path = "piecewise_frequency"
    /\ \A k \in 1..Len(ret.raw) : ret.raw[k].known

\* max |first difference| of component c of the upsampled field along grid
\* axis a: over the pairs of fine patches that are neighbours on that axis
MaxAbsDiff(c, a) ==
    LET pairs == {kk \in (1..Len(ret.raw)) \X (1..Len(ret.raw)) :
                     ret.xy_grid[kk[2]] = [ret.xy_grid[kk[1]] EXCEPT ![a] = @ + 1]}
        d(kk) == Abs(ret.raw[kk[2]].v[c] - ret.raw[kk[1]].v[c])
    IN  CHOOSE v \in {d(kk) : kk \in pairs} : \A kk \in pairs : d(kk) <= v

\* the four values: x field along axes 0 and 1, y field along axes 0 and 1
ShearValues == <<MaxAbsDiff(1, 1), MaxAbsDiff(1, 2), MaxAbsDiff(2, 1), MaxAbsDiff(2, 2)>>

\* the r-th smallest of four values
Ranked(vs, r) ==
    CHOOSE x \in {vs[i] : i \in 1..4} :
        /\ Cardinality({i \in 1..4 : vs[i] <= x}) >= r
        /\ Cardinality({i \in 1..4 : vs[i] < x}) < r

\* four times the 75th percentile of four values (position 2.25 of the sorted
\* values, interpolated linearly): 3 * third + fourth
MaxShearTimes4 ==
    LET vs == ShearValues
    IN  3 * Ranked(vs, 3) + Ranked(vs, 4)

\* C16: in the frequency-domain piecewise path of tile_and_correct (fine grid
\* of at least two patches per axis) exactly one stitching branch runs: the
\* blending branch when max_shear, the 75th percentile of the four values
\* max |first difference| of the upsampled x and y fields along the grid axes
\* 0 and 1, is below 0.5, the hard-boundary branch when it is 0.5 or more.
C16_ShearSelectsBranch ==
    FieldReturned =>
        /\ \A a \in 1..2 : \E k \in 1..Len(ret.xy_grid) : ret.xy_grid[k][a] >= 1
        /\ ret.blend \in {"blend", "hard"}
        /\ LET shear4 == MaxShearTimes4
           IN  /\ ret.blend = "blend" <=> shear4 < 2
               /\ ret.blend = "hard" <=> shear4 >= 2

\* max_shear is exactly 0.5 (three values 0 and one value 2) and the hard
\* boundaries were used
C16_Witness ==
    /\ FieldReturned
    /\ MaxShearTimes4 = 2
    /\ ret.blend = "hard"

\* the hard-boundary stitch of tile_and_correct has run on a followed field
HardStitched ==
    /\ FieldReturned
    /\ ret.blend = "hard"

\* int(newoverlaps[a] / 2); newoverlaps defaults to overlaps
HalfOverlap(a) ==
    (IF call.hasNewOverlaps THEN call.newoverlaps[a] ELSE call.overlaps[a]) \div 2

\* fine patch k has a neighbour after it on axis a
HasNext(k, a) ==
    \E j \in 1..Len(ret.xy_grid) : ret.xy_grid[j] = [ret.xy_grid[k] EXCEPT ![a] = @ + 1]

\* the first pixel of patch k on axis a after trimming its leading edge
TrimmedStart(k, a) ==
    IF ret.xy_grid[k][a] = 0 THEN ret.start_step[k][a]
    ELSE ret.start_step[k][a] + HalfOverlap(a)

\* the end of patch k on axis a with int(overlap / 2) trimmed from a shared
\* trailing edge
TrimmedEnd(k, a) ==
    IF HasNext(k, a) THEN ret.start_step[k][a] + ret.window[a] - HalfOverlap(a)
    ELSE ret.start_step[k][a] + ret.window[a]

\* the end of patch k on axis a where the next patch on that axis begins to
\* write
NextStart(k, a) ==
    IF HasNext(k, a)
    THEN LET j == CHOOSE j \in 1..Len(ret.xy_grid) :
                      ret.xy_grid[j] = [ret.xy_grid[k] EXCEPT ![a] = @ + 1]
         IN  TrimmedStart(j, a)
    ELSE ret.start_step[k][a] + ret.window[a]

\* entry n of the corrected frame is the entry of the shifted patch k at n
FromPatch(n, k) ==
    LET p == ret.patches[k][[a \in 1..2 |-> n[a] - ret.start_step[k][a]]]
    IN  ret.new_img[n] = IF p.k \in {"nan", "mix"} THEN p
                         ELSE [p EXCEPT !.add = @ - call.add]

C18_FilterNeedsFastPath ==
    (pc = "done" /\ call.fn \in {"tile_and_correct", "tile_and_correct_3d"}) =>
        /\ ret.status = "Exception" <=> (call.gSig /\ ~call.opencv)
        /\ (call.gSig /\ call.opencv) => ret.status = "ok"

\* tile_and_correct_3d has returned a frame stitched from shifted patches
\* every entry of which is a finite value
Stitched3d ==
    /\ pc = "done"
    /\ call.fn = "tile_and_correct_3d"
    /\ ret.status = "ok"
    /\ ret.path = "piecewise_frequency"
    /\ \A k \in 1..Len(ret.patches) :
          \A m \in Indices(ret.window) : ret.patches[k][m].k \in {"px", "zero", "min"}

\* C25: in the frequency-domain piecewise path of tile_and_correct_3d the
\* stitching loop of both branches visits every patch of the fine grid, so
\* when all shifted patches are finite no output voxel is left at its NaN
\* initial value.
C25_NoVoxelLeftNan ==
    Stitched3d => \A n \in Indices(call.shape) : ret.new_img[n].k # "nan"

\* tile_and_correct_3d has returned from its frequency-domain piecewise path
Upsampled3d ==
    /\ pc = "done"
    /\ call.fn = "tile_and_correct_3d"
    /\ ret.status = "ok"
    /\ ret.path = "piecewise_frequency"

\* the index of entry k (from 0) of an array of shape s flattened in C order
Unravel(k, s) == <<k \div (s[2] * s[3]), (k \div s[3]) % s[2], k % s[3]>>

\* C26: in tile_and_correct_3d the upsampled shift fields and phase field
\* have the shape of the fine grid (n1, n2, n3) in that axis order, so the
\* k-th value of a flattened field is the one at the grid position of the
\* k-th patch of sliding_window_3d, also when n1, n2, n3 are not all equal.
C26_UpsampledFieldInGridOrder ==
    Upsampled3d =>
        /\ ret.upsampled = [a \in 1..3 |-> ret.xy_grid[Len(ret.xy_grid)][a] + 1]
        /\ \A k \in 1..Len(ret.xy_grid) :
              Unravel(k - 1, ret.upsampled) = ret.xy_grid[k]

\* C27: MotionCorrect.apply_shifts_movie, given the piecewise shifts stored
\* by a previous correction, displaces every frame in the same direction as
\* the fast path that produced them: in the 2-D and in the 3-D branch the
\* sampling offset added to the coordinate grid is the raw measured shift,
\* the negation of the stored shift, and an entry both corrections read from
\* the frame is read at the same place.
C27_AppliedOffsetIsMeasuredShift ==
    pc = "applied" =>
        /\ \A k \in 1..Len(ret.applied) :
              /\ ret.applied[k] = ret.raw[k].v
              /\ ret.applied[k] = Negate(ret.total_shifts[k].v)
        /\ \A n \in Indices(call.shape) :
              (ret.m_reg[n].k = "px" /\ ret.new_img[n].k = "px")
                  => ret.m_reg[n].at = ret.new_img[n].at

\* the engine has returned and every shift it measured is zero
ZeroShiftReturned ==
    /\ pc = "done"
    /\ call.fn \in {"tile_and_correct", "tile_and_correct_3d"}
    /\ ret.status = "ok"
    /\ \A a \in 1..Len(call.shape) : ret.rigid_shts[a] = 0
    /\ \A k \in 1..Len(ret.raw) :
          ret.raw[k].known /\ \A a \in 1..Len(call.shape) : ret.raw[k].v[a] = 0

\* C28: in every non-failing path of tile_and_correct and tile_and_correct_3d
\* add_to_movie is subtracted from the returned frame if and only if it had
\* been added to the frame that was resampled, so a frame with zero measured
\* shift is returned with its original intensities for every add_to_movie,
\* also when gSig_filt is set and the fast path is used.
C28_AddToMovieCancels ==
    ZeroShiftReturned =>
        \A n \in Indices(call.shape) :
            ret.new_img[n].k = "px" => ret.new_img[n] = Px(n, 0)

(***************************************************************************)
(* Properties of the orchestration.                                        *)
(***************************************************************************)
\* an orchestrator is running or has ended
InBatch == call.fn \in {"motion_correct_batch_rigid", "motion_correct_batch_pwrigid"}

\* C19: in motion_correct_batch_rigid and motion_correct_batch_pwrigid, for
\* num_iter >= 1 and with saving requested, the output file is created and
\* frames are written only in the last iteration (index num_iter - 1).
C19_SaveOnlyInLastIteration ==
    (InBatch /\ call.num_iter >= 1 /\ call.save) =>
        /\ \A i \in ret.files : i = call.num_iter - 1
        /\ \A w \in ret.writes : w.iter = call.num_iter - 1

\* C20: no chunk worker is dispatched in an iteration whose template, the
\* caller's or an aggregated one, holds a non-finite value: the orchestrator
\* raises before.
C20_NoDispatchWithNonFiniteTemplate ==
    InBatch => \A d \in ret.dispatched : d.templ = "finite"

\* C21 as stated: the workers of an iteration all hold the same template; a
\* template is made only when every worker of the iteration has returned, and
\* it is the median of the chunk means of all jobs of that iteration; the jobs
\* of iteration k + 1 hold the template made after iteration k
C21_TemplateIsMedianOfAllChunksAsStated ==
    InBatch =>
        /\ \A k \in 1..Len(ret.jobs) : ret.jobs[k].made = ret.jobs[1].made
        /\ (pc = "workers" /\ ret.iter >= 1) =>
              \A k \in 1..Len(ret.jobs) : ret.jobs[k].made.iter = ret.iter - 1
        /\ ret.made.iter >= 0 =>
              /\ ret.made.of = 1..Len(ret.res)
              /\ ~ret.made.filtered

\* C21 amended: the same, the template made after an iteration being the
\* median of the chunk means of all jobs of that iteration, high-pass
\* filtered when gSig_filt is set
C21_TemplateIsMedianOfAllChunks ==
    InBatch =>
        /\ \A k \in 1..Len(ret.jobs) : ret.jobs[k].made = ret.jobs[1].made
        /\ (pc = "workers" /\ ret.iter >= 1) =>
              \A k \in 1..Len(ret.jobs) : ret.jobs[k].made.iter = ret.iter - 1
        /\ ret.made.iter >= 0 =>
              /\ ret.made.of = 1..Len(ret.res)
              /\ ret.made.filtered = call.gSig

\* the second iteration is under way with two jobs holding the template made
\* from both jobs of the first
C21_Witness ==
    /\ InBatch
    /\ pc = "workers"
    /\ ret.iter = 1
    /\ Len(ret.jobs) = 2
    /\ ret.pending = {2}
    /\ ret.jobs[2].made = [iter |-> 0, of |-> {1, 2}, filtered |-> call.gSig]

\* the jobs of the current iteration write to the output file
Saving ==
    /\ call.fn \in {"motion_correct_batch_rigid", "motion_correct_batch_pwrigid",
                    "motion_correction_piecewise"}
    /\ pc \in {"workers", "loop", "returned"}
    /\ ret.jobs # << >>
    /\ ret.save

\* the iteration the jobs were handed out in: one after the iteration their
\* template was made in
JobIter == ret.jobs[1].made.iter + 1

\* the job that writes column t last when the jobs run one after the other
\* in chunk order
SequentialWriter(t) ==
    LET ks == {k \in 1..Len(ret.jobs) : t \in ret.jobs[k].idxs}
    IN  IF ks = {} THEN 0 ELSE CHOOSE k \in ks : \A j \in ks : j <= k

\* C22: whenever saving is on in motion_correction_piecewise the frame-index
\* sets of the jobs are pairwise disjoint, no column is written by two
\* workers, and under every interleaving the output buffer, the results and
\* their order are those of running the jobs one after the other in chunk
\* order.
C22_DisjointWrites ==
    Saving =>
        /\ \A j, k \in 1..Len(ret.jobs) :
              j # k => ret.jobs[j].idxs \cap ret.jobs[k].idxs = {}
        /\ \A v, w \in ret.writes :
              (v.iter = w.iter /\ v.job # w.job) => v.idxs \cap w.idxs = {}
        /\ \A k \in 1..Len(ret.res) :
              ret.res[k].done =>
                  /\ ret.res[k].idxs = ret.jobs[k].idxs
                  /\ ret.res[k].new_temp = [iter |-> JobIter, job |-> k]
        /\ ret.pending = {} =>
              \A t \in 0..(call.T - 1) :
                  ret.outv[t + 1] =
                      IF SequentialWriter(t) = 0 THEN [iter |-> -1, job |-> 0]
                      ELSE [iter |-> JobIter, job |-> SequentialWriter(t)]

\* both of two jobs have written their columns and the results are not yet
\* collected
C22_Witness ==
    /\ Saving
    /\ pc = "workers"
    /\ Len(ret.jobs) = 2
    /\ ret.pending = {}
    /\ ret.outv[1].job = 1
    /\ ret.outv[call.T].job = 2

\* the frames of all jobs of the current dispatch
Covered == UNION {ret.jobs[k].idxs : k \in 1..Len(ret.jobs)}

\* the jobs of the current dispatch that have written column t
WritersOf(t) ==
    {w \in ret.writes : w.iter = JobIter /\ t \in w.idxs}

\* the function has dispatched its jobs
Dispatched ==
    /\ call.fn \in {"motion_correct_batch_rigid", "motion_correct_batch_pwrigid",
                    "motion_correction_piecewise"}
    /\ pc \in {"workers", "loop", "returned"}
    /\ ret.jobs # << >>

\* C23: whenever motion_correction_piecewise creates the output file and lets
\* the workers write to it, the chunks cover the frames 0..T-1 and every
\* column is written exactly once; saving is off when the caller gives index
\* groups as splits, when num_splits sampling is used, and in any call whose
\* chunks do not cover all frames.
C23_SavedFileFullyWritten ==
    /\ Saving =>
          /\ Covered = 0..(call.T - 1)
          /\ ret.pending = {} =>
                \A t \in 0..(call.T - 1) : Cardinality(WritersOf(t)) = 1
    /\ Dispatched =>
          ((call.groups # << >> \/ call.num_splits # 0
                \/ Covered # 0..(call.T - 1)) => ~ret.save)

\* C24: for an integer splits with 1 <= splits <= T, no num_splits sampling
\* and num_iter >= 1, the shift list returned by motion_correct_batch_rigid
\* and motion_correct_batch_pwrigid has exactly T entries and its k-th entry
\* is the shift measured for frame k in the last iteration.
C24_ShiftListInFrameOrder ==
    (/\ InBatch
     /\ pc = "returned"
     /\ call.splits <= call.T
     /\ call.num_splits = 0
     /\ call.num_iter >= 1) =>
        /\ Len(ret.shifts) = call.T
        /\ \A k \in 0..(call.T - 1) :
              ret.shifts[k + 1] = [frame |-> k, iter |-> call.num_iter - 1]

\* an orchestrator has returned the shifts of two iterations over two chunks
C24_Witness ==
    /\ InBatch
    /\ pc = "returned"
    /\ call.splits = 2
    /\ call.num_splits = 0
    /\ call.num_iter = 2
    /\ Len(ret.res) = 2
    /\ Len(ret.shifts) = call.T
    /\ ret.shifts[call.T].iter = 1

\* the blending loop has run over a 2-D grid with overlaps >= 1
Blended ==
    /\ pc = "blended"
    /\ \A a \in 1..2 : call.overlaps[a] >= 1

\* the last patch of the axis is not clamped
RegularAxis(a) ==
    (call.shape[a] - call.strides[a] - call.overlaps[a]) % call.strides[a] = 0

\* C29: in the blending branch of tile_and_correct, for every frame extent,
\* newstrides >= 1 and newoverlaps >= 1 with patch size <= extent (clamped
\* last patch included), when no shifted patch holds a NaN the normalizer is
\* strictly positive at every pixel; on a regular grid with overlaps <=
\* strides it is 1 at every pixel.
C29_NormalizerPositive ==
    Blended =>
        \A n \in Indices(call.shape) :
            /\ ret.normalizer[n].d > 0
            /\ ret.normalizer[n].n > 0
            /\ (\A a \in 1..2 : RegularAxis(a) /\ call.overlaps[a] <= call.strides[a])
                  => ret.normalizer[n].n = ret.normalizer[n].d

\* a grid with a clamped last patch on one axis and a regular other axis,
\* more than two patches on each
C29_Witness ==
    /\ Blended
    /\ ~RegularAxis(1)
    /\ RegularAxis(2)
    /\ call.overlaps = <<2, 2>>
    /\ Len(ret.tiles) >= 9
    /\ \E n \in Indices(call.shape) : ret.normalizer[n].n > ret.normalizer[n].d

\* create_weight_matrix_for_blending has ended on a valid 2-D grid
WeightsEnded ==
    /\ pc = "done"
    /\ call.fn = "create_weight_matrix_for_blending"
    /\ Len(call.shape) = 2
    /\ ValidGrid

\* C30: for a grid with more than one patch on an axis whose overlap is 0,
\* create_weight_matrix_for_blending completes and its weight matrices are
\* constant 1 along that axis.
C30_ZeroOverlapNoRamp ==
    WeightsEnded =>
        \A a \in 1..2 :
            (call.overlaps[a] = 0 /\ PatchCount(a) > 1) =>
                /\ ret.status = "ok"
                /\ \A k \in 1..Len(ret.weights) :
                      \A m, n \in Indices(WindowSize) :
                          (\A b \in 1..2 : b # a => m[b] = n[b])
                              => FracEq(ret.weights[k][m], ret.weights[k][n])

====
